---- MODULE Spec2Model ----
(***************************************************************************)
(* The principal-backed identity layer of the authenticating proxy:       *)
(* LDAP group -> role mappings and local users kept in a key-value store   *)
(* that offers single-key read / write / clear only.                       *)
(*                                                                         *)
(* The store driver (types.StateDriver) is an external collaborator.  It   *)
(* is modelled by its contract: Read answers ErrKeyNotFound for an absent  *)
(* key, and every operation may fail with a store error, in which case it  *)
(* has no effect on the store.                                             *)
(***************************************************************************)
EXTENDS Integers, Sequences, FiniteSets, TLC

\* ------------------------------------------------------------------ bounds

\* Number of principal ids (uuid.NewV4 values) the callers can draw.
NumPids == 3
\* Store operations that fail in one behaviour.
MaxFailures == 2

\* The LDAP group names the callers use.
Groups == {"aaa", "bbb"}

AllPids == <<"p1", "p2", "p3", "p4", "p5">>
Pids == {AllPids[i] : i \in 1..NumPids}

\* The local user names the callers use besides the two built-in ones.
OtherUsers == {"alice"}

\* Text of the error a failing store operation returns.
StoreErrors == {"E1"}

\* Plaintext passwords the callers supply.
Passwords == {"pw"}

\* ------------------------------------------------------------------- types

\* RoleType and its constants.
Admin == 0
Ops == 1
Invalid == 2
Roles == {Admin, Ops}

\* func (role RoleType) String() string
RoleString(role) ==
    IF role = Ops THEN "ops"
    ELSE IF role = Admin THEN "admin"
    ELSE ""

\* The two reserved user names, Admin.String() and Ops.String().
BuiltInUsers == {RoleString(Admin), RoleString(Ops)}
Usernames == BuiltInUsers \cup OtherUsers

\* The key roots of the store.
RootPrincipals == "principals"
RootLdapMappings == "ldap_mappings"
RootLocalUsers == "local_users"

\* ------------------------------------------------------------------ errors

\* An error value: the sentinel errors of ccnerrors have an empty cause; an
\* error built by fmt.Errorf carries its format and the value formatted in.
Err(msg, cause) == [msg |-> msg, cause |-> cause]
Nil == Err("nil", "")
ErrKeyExists == Err("ErrKeyExists", "")
ErrKeyNotFound == Err("ErrKeyNotFound", "")
ErrIllegalOperation == Err("ErrIllegalOperation", "")
ErrIllegalArgument == Err("ErrIllegalArgument", "")
\* The error of a failing store operation, passed on as it is.
StoreErr(text) == Err("store", text)

\* Seeded fault (C19): a Role that takes the empty string for "admin".
Role_EmptyIsAdmin(roleStr) ==
    IF roleStr = RoleString(Admin) \/ roleStr = "" THEN [role |-> Admin, err |-> Nil]
    ELSE IF roleStr = RoleString(Ops) THEN [role |-> Ops, err |-> Nil]
    ELSE [role |-> Invalid, err |-> ErrIllegalArgument]

\* Seeded fault (C29): a Role that reports no error for a string that names
\* no role.
Role_NoError(roleStr) ==
    IF roleStr = RoleString(Admin) THEN [role |-> Admin, err |-> Nil]
    ELSE IF roleStr = RoleString(Ops) THEN [role |-> Ops, err |-> Nil]
    ELSE [role |-> Invalid, err |-> Nil]

\* func Role(roleStr string) (RoleType, error)
Role(roleStr) ==
    IF roleStr = RoleString(Admin) THEN [role |-> Admin, err |-> Nil]
    ELSE IF roleStr = RoleString(Ops) THEN [role |-> Ops, err |-> Nil]
    ELSE [role |-> Invalid, err |-> ErrIllegalArgument]

\* Outcome of one store operation as the driver reports it.
OK == "ok"
NotFound == "ErrKeyNotFound"

\* ------------------------------------------------------------ store driver

\* Length of a fault choice.  The most store operations one call makes are
\* the 9 of an updateLdapMappingHelper: its read (1), an UpdateLdapMapping
\* whose delete succeeds (3) and whose add then runs into its compensation (5).
MaxStoreOps == 9

VARIABLES
    principals,     \* store under RootPrincipals:   uuid -> JSON of Principal
    ldap_mappings,  \* store under RootLdapMappings: group name -> JSON of LdapRoleMapping
    local_users,    \* store under RootLocalUsers:   username -> JSON of the local user
    api,            \* the API the caller drives: "ldap" (ldap.go), or local.go
                    \* with requests that follow the bootstrap ("local") or
                    \* that name the built-in users at any time ("early");
                    \* ldap.go and local.go share no key of the store
    layer,          \* the functions the caller calls: those of usermgmt
                    \* ("usermgmt") or the helpers of the proxy ("proxy")
    call,           \* the last call: its name and its key
    err,            \* the error the last call returned
    ret,            \* the value the last call returned: <<>> for nil, <<v>> for v
    trace,          \* the store operations the last call made, in order
    pre,            \* the store as it was when the last call began
    failures,       \* number of store operations that have failed so far
    added,          \* key -> role of the last add that returned nil for the key,
                    \* for the keys with no later delete that returned nil
    procs           \* the calls that run concurrently, one per goroutine: where
                    \* each stands (pc), its arguments and what it returned

vars == <<principals, ldap_mappings, local_users, api, layer, call, err, ret,
          trace, pre, failures, added, procs>>

\* The store as one value: root -> (key -> stored bytes).
Store == [principals |-> principals, ldap_mappings |-> ldap_mappings,
          local_users |-> local_users]

EmptyMap == [k \in {} |-> 0]

\* A map without one key.
Without(m, key) == [k \in DOMAIN m \ {key} |-> m[k]]
\* A map with one key set.
With(m, key, val) == [k \in DOMAIN m \cup {key} |-> IF k = key THEN val ELSE m[k]]

\* One entry of the trace of a call.
Op(name, root, key, out) == [op |-> name, root |-> root, key |-> key, out |-> out]

\* A call in progress is a record c: c.s the store, c.tr the store operations
\* made so far.  f is the fault choice of the call: f[i] is what the driver
\* answers to the call's i-th store operation when it fails, OK otherwise.
Fault(f, c) == f[Len(c.tr) + 1]

\* What the driver answers to a read of root/key.
ReadOut(c, f, root, key) ==
    IF Fault(f, c) # OK THEN Fault(f, c)
    ELSE IF key \in DOMAIN c.s[root] THEN OK ELSE NotFound

\* stateDrv.Read(GetPath(root, key))
Read(c, f, root, key) ==
    [s |-> c.s,
     tr |-> Append(c.tr, Op("Read", root, key, ReadOut(c, f, root, key))),
     out |-> ReadOut(c, f, root, key)]

\* stateDrv.Write(GetPath(root, key), val)
Write(c, f, root, key, val) ==
    [s |-> IF Fault(f, c) = OK
           THEN [c.s EXCEPT ![root] = With(c.s[root], key, val)]
           ELSE c.s,
     tr |-> Append(c.tr, Op("Write", root, key, Fault(f, c))),
     out |-> Fault(f, c)]

\* stateDrv.ClearState(GetPath(root, key))
ClearState(c, f, root, key) ==
    [s |-> IF Fault(f, c) = OK
           THEN [c.s EXCEPT ![root] = Without(c.s[root], key)]
           ELSE c.s,
     tr |-> Append(c.tr, Op("ClearState", root, key, Fault(f, c))),
     out |-> Fault(f, c)]

\* The orders in which the driver may list the keys of S.
Orders(S) ==
    {o \in [1..Cardinality(S) -> S] :
        \A i, j \in 1..Cardinality(S) : o[i] = o[j] => i = j}

\* What the driver answers to a listing of root.  For a root with no key the
\* driver answers ErrKeyNotFound (q) or an empty list (~q).
ReadAllOut(c, f, q, root) ==
    IF Fault(f, c) # OK THEN Fault(f, c)
    ELSE IF DOMAIN c.s[root] = {} /\ q THEN NotFound ELSE OK

\* Seeded fault (C15): a listing that leaves the last value out.
ReadAll_Short(c, f, q, o, root) ==
    [s |-> c.s,
     tr |-> Append(c.tr, Op("ReadAll", root, "", ReadAllOut(c, f, q, root))),
     out |-> ReadAllOut(c, f, q, root),
     data |-> IF ReadAllOut(c, f, q, root) = OK
              THEN [i \in 1..(Len(o) - 1) |-> c.s[root][o[i]]]
              ELSE <<>>]

\* stateDrv.ReadAll(GetPath(root)): the stored values, in the order o.
ReadAll(c, f, q, o, root) ==
    [s |-> c.s,
     tr |-> Append(c.tr, Op("ReadAll", root, "", ReadAllOut(c, f, q, root))),
     out |-> ReadAllOut(c, f, q, root),
     data |-> IF ReadAllOut(c, f, q, root) = OK
              THEN [i \in 1..Len(o) |-> c.s[root][o[i]]]
              ELSE <<>>]

\* A call returning the error e from where c stands.
Return(c, e) == [s |-> c.s, tr |-> c.tr, err |-> e]
\* A call returning the value v (<<>>: nil) and the error e.
ReturnVal(c, v, e) == [s |-> c.s, tr |-> c.tr, ret |-> v, err |-> e]

\* ---------------------------------------------------------------- encoding

\* Seeded fault (C7): a decoding of the Principal that loses the role.
UnmarshalPrincipal_NoRole(j) == [UUID |-> j.uuid, Role |-> Admin]

\* json.Marshal / json.Unmarshal of types.Principal (tags uuid, roletype).
MarshalPrincipal(p) == [uuid |-> p.UUID, roletype |-> p.Role]
UnmarshalPrincipal(j) == [UUID |-> j.uuid, Role |-> j.roletype]

\* json.Marshal / json.Unmarshal of types.LdapRoleMapping (no tags).
MarshalLdapMapping(m) ==
    [GroupName |-> m.GroupName, Principal |-> MarshalPrincipal(m.Principal),
     PrincipalID |-> m.PrincipalID]
UnmarshalLdapMapping(j) ==
    [GroupName |-> j.GroupName, Principal |-> UnmarshalPrincipal(j.Principal),
     PrincipalID |-> j.PrincipalID]

\* ---------------------------------------------------------------- common.go
\* Each function is its first step applied to the steps that follow it: a
\* definition F_x is F from the point where the result x is in hand.

\* deletePrincipal, after ClearState.
deletePrincipal_cleared(c) ==
    IF c.out # OK
    THEN Return(c, Err("Failed to clear principal from store", c.out))
    ELSE Return(c, Nil)

\* Seeded fault (C1): a deletePrincipal that clears nothing.
deletePrincipal_Kept(c, f, principal) == Return(c, Nil)

\* func deletePrincipal(principal, stateDrv) error
deletePrincipal(c, f, principal) ==
    deletePrincipal_cleared(ClearState(c, f, RootPrincipals, principal.UUID))

\* addPrincipal, after Write.
addPrincipal_written(w) ==
    IF w.out # OK
    THEN Return(w, Err("Failed to write local user principal to data store", w.out))
    ELSE Return(w, Nil)

\* addPrincipal, the switch on the error of Read.
addPrincipal_read(r, f, principal) ==
    IF r.out = OK
    THEN Return(r, Err("ErrKeyExists: %q", principal.UUID))
    ELSE IF r.out = NotFound
    THEN addPrincipal_written(Write(r, f, RootPrincipals, principal.UUID,
                                    MarshalPrincipal(principal)))
    ELSE Return(r, StoreErr(r.out))

\* func addPrincipal(principal, stateDrv) error
addPrincipal(c, f, principal) ==
    addPrincipal_read(Read(c, f, RootPrincipals, principal.UUID), f, principal)

\* ------------------------------------------------------------------ ldap.go

\* getLdapMapping, after Read.
getLdapMapping_read(r, ldapGroupName) ==
    IF r.out # OK
    THEN IF r.out = NotFound
         THEN ReturnVal(r, <<>>, ErrKeyNotFound)
         ELSE ReturnVal(r, <<>>,
                  Err("Failed to read LDAP mapping for group from data store", r.out))
    ELSE ReturnVal(r, <<UnmarshalLdapMapping(r.s[RootLdapMappings][ldapGroupName])>>, Nil)

\* func getLdapMapping(ldapGroupName, stateDrv) (*types.LdapRoleMapping, error)
getLdapMapping(c, f, ldapGroupName) ==
    getLdapMapping_read(Read(c, f, RootLdapMappings, ldapGroupName), ldapGroupName)

\* Seeded fault (C3): the failed write of the mapping with no cleanup.
AddLdapMapping_written_NoCleanup(w, f, ldapMapping) ==
    IF w.out # OK
    THEN Return(w, Err("Failed to write LDAP group mapping info. to data store", w.out))
    ELSE Return(w, Nil)

\* Seeded fault (C5): the error of a failed cleanup returned to the caller.
AddLdapMapping_cleanup_Surfaced(d, w) ==
    IF d.err # Nil
    THEN Return(d, d.err)
    ELSE Return(d, Err("Failed to write LDAP group mapping info. to data store", w.out))
AddLdapMapping_written_Surfaced(w, f, ldapMapping) ==
    IF w.out # OK
    THEN AddLdapMapping_cleanup_Surfaced(deletePrincipal(w, f, ldapMapping.Principal), w)
    ELSE Return(w, Nil)

\* Seeded fault (C31): a cleanup that is run again when it failed.
AddLdapMapping_cleanup_Retry(d, f, ldapMapping, w) ==
    IF d.err # Nil
    THEN Return(deletePrincipal(d, f, ldapMapping.Principal),
                Err("Failed to write LDAP group mapping info. to data store", w.out))
    ELSE Return(d, Err("Failed to write LDAP group mapping info. to data store", w.out))
AddLdapMapping_written_Retry(w, f, ldapMapping) ==
    IF w.out # OK
    THEN AddLdapMapping_cleanup_Retry(deletePrincipal(w, f, ldapMapping.Principal),
                                      f, ldapMapping, w)
    ELSE Return(w, Nil)

\* AddLdapMapping, after the Write of the mapping: the cleanup.
AddLdapMapping_written(w, f, ldapMapping) ==
    IF w.out # OK
    THEN Return(deletePrincipal(w, f, ldapMapping.Principal),
                Err("Failed to write LDAP group mapping info. to data store", w.out))
    ELSE Return(w, Nil)

\* Seeded fault (C32): an add that writes the mapping whatever addPrincipal
\* returned.
AddLdapMapping_principal_GoOn(a, f, ldapMapping) ==
    AddLdapMapping_written(
        Write(a, f, RootLdapMappings, ldapMapping.GroupName,
              MarshalLdapMapping(ldapMapping)),
        f, ldapMapping)

\* AddLdapMapping, after addPrincipal.
AddLdapMapping_principal(a, f, ldapMapping) ==
    IF a.err # Nil
    THEN Return(a, a.err)
    ELSE AddLdapMapping_written(
             Write(a, f, RootLdapMappings, ldapMapping.GroupName,
                   MarshalLdapMapping(ldapMapping)),
             f, ldapMapping)

\* Seeded fault (C6): an add that goes on when the group is mapped already.
AddLdapMapping_got_Overwrite(g, f, ldapMapping) ==
    IF g.err = Nil \/ g.err = ErrKeyNotFound
    THEN AddLdapMapping_principal(addPrincipal(g, f, ldapMapping.Principal),
                                  f, ldapMapping)
    ELSE Return(g, g.err)

\* AddLdapMapping, the switch on the error of getLdapMapping.
AddLdapMapping_got(g, f, ldapMapping) ==
    IF g.err = Nil
    THEN Return(g, ErrKeyExists)
    ELSE IF g.err = ErrKeyNotFound
    THEN AddLdapMapping_principal(addPrincipal(g, f, ldapMapping.Principal),
                                  f, ldapMapping)
    ELSE Return(g, g.err)

\* func AddLdapMapping(ldapMapping *types.LdapRoleMapping) error
AddLdapMapping(c, f, ldapMapping) ==
    AddLdapMapping_got(getLdapMapping(c, f, ldapMapping.GroupName), f, ldapMapping)

\* Seeded fault (C4): the failed delete of the mapping with no cleanup.
DeleteLdapMapping_cleared_NoCleanup(c, f, ldapGroupName, ldapMapping) ==
    IF c.out # OK
    THEN Return(c, Err("Failed to delete group from store", c.out))
    ELSE Return(c, Nil)

\* DeleteLdapMapping, after the ClearState of the mapping: the cleanup.
DeleteLdapMapping_cleared(c, f, ldapGroupName, ldapMapping) ==
    IF c.out # OK
    THEN Return(addPrincipal(c, f, ldapMapping.Principal),
                Err("Failed to delete group from store", c.out))
    ELSE Return(c, Nil)

\* Seeded fault (C8): a delete that stops after deletePrincipal.
DeleteLdapMapping_principal_Stop(d, f, ldapGroupName, ldapMapping) ==
    Return(d, d.err)

\* DeleteLdapMapping, after deletePrincipal.
DeleteLdapMapping_principal(d, f, ldapGroupName, ldapMapping) ==
    IF d.err # Nil
    THEN Return(d, d.err)
    ELSE DeleteLdapMapping_cleared(
             ClearState(d, f, RootLdapMappings, ldapGroupName),
             f, ldapGroupName, ldapMapping)

\* DeleteLdapMapping, after getLdapMapping.
DeleteLdapMapping_got(g, f, ldapGroupName) ==
    IF g.err # Nil
    THEN Return(g, g.err)
    ELSE DeleteLdapMapping_principal(deletePrincipal(g, f, g.ret[1].Principal),
                                     f, ldapGroupName, g.ret[1])

\* func DeleteLdapMapping(ldapGroupName string) error
DeleteLdapMapping(c, f, ldapGroupName) ==
    DeleteLdapMapping_got(getLdapMapping(c, f, ldapGroupName), f, ldapGroupName)

\* The result r of an update, with what the delete inside it returned.
WithDel(r, del) == [s |-> r.s, tr |-> r.tr, err |-> r.err, del |-> del]

\* Seeded fault (C9): an update that adds the mapping it did not find.
UpdateLdapMapping_deleted_Upsert(d, f, ldapGroupName, ldapMapping) ==
    IF d.err = Nil \/ d.err = ErrKeyNotFound
    THEN WithDel(AddLdapMapping(d, f, ldapMapping), d.err)
    ELSE WithDel(Return(d, Err("Couldn't update ldap mapping information for group",
                               ldapGroupName)),
                 d.err)

\* UpdateLdapMapping, the switch on the error of DeleteLdapMapping.
UpdateLdapMapping_deleted(d, f, ldapGroupName, ldapMapping) ==
    IF d.err = Nil
    THEN WithDel(AddLdapMapping(d, f, ldapMapping), d.err)
    ELSE IF d.err = ErrKeyNotFound
    THEN WithDel(d, d.err)
    ELSE WithDel(Return(d, Err("Couldn't update ldap mapping information for group",
                               ldapGroupName)),
                 d.err)

\* func UpdateLdapMapping(ldapGroupName string, ldapMapping *types.LdapRoleMapping) error
UpdateLdapMapping(c, f, ldapGroupName, ldapMapping) ==
    UpdateLdapMapping_deleted(DeleteLdapMapping(c, f, ldapGroupName),
                              f, ldapGroupName, ldapMapping)

\* func GetLdapMapping(ldapGroupName string) (*types.LdapRoleMapping, error)
GetLdapMapping(c, f, ldapGroupName) == getLdapMapping(c, f, ldapGroupName)

\* Seeded fault (C14): a listing that passes ErrKeyNotFound on.
GetLdapMappings_read_NotFound(r) ==
    IF r.out # OK
    THEN IF r.out = NotFound
         THEN ReturnVal(r, <<>>, ErrKeyNotFound)
         ELSE ReturnVal(r, <<>>, Err("Couldn't fetch LDAP mappings from data store", ""))
    ELSE ReturnVal(r, <<[i \in 1..Len(r.data) |-> UnmarshalLdapMapping(r.data[i])]>>,
                   Nil)

\* GetLdapMappings, after ReadAll.
GetLdapMappings_read(r) ==
    IF r.out # OK
    THEN IF r.out = NotFound
         THEN ReturnVal(r, << <<>> >>, Nil)
         ELSE ReturnVal(r, <<>>, Err("Couldn't fetch LDAP mappings from data store", ""))
    ELSE ReturnVal(r, <<[i \in 1..Len(r.data) |-> UnmarshalLdapMapping(r.data[i])]>>,
                   Nil)

\* func GetLdapMappings() ([]*types.LdapRoleMapping, error)
GetLdapMappings(c, f, q, o) ==
    GetLdapMappings_read(ReadAll(c, f, q, o, RootLdapMappings))

\* ----------------------------------------------------------------- local.go

\* common.GenPasswordHash: an opaque digest of the password (never empty).
GenPasswordHash(password) == <<"digest", password>>
\* The empty []byte.
NoHash == <<>>

\* json.Marshal / json.Unmarshal of the local user object (tags username,
\* password, disable, principal_id, password_hash; Principal has no tag).
MarshalLocalUser(u) ==
    [username |-> u.Username, password |-> u.Password, disable |-> u.Disable,
     Principal |-> MarshalPrincipal(u.Principal), principal_id |-> u.PrincipalID,
     password_hash |-> u.PasswordHash]
UnmarshalLocalUser(j) ==
    [Username |-> j.username, Password |-> j.password, Disable |-> j.disable,
     Principal |-> UnmarshalPrincipal(j.Principal), PrincipalID |-> j.principal_id,
     PasswordHash |-> j.password_hash]

\* getLocalUser, after Read.
getLocalUser_read(r, username) ==
    IF r.out # OK
    THEN IF r.out = NotFound
         THEN ReturnVal(r, <<>>, ErrKeyNotFound)
         ELSE ReturnVal(r, <<>>, Err("Failed to read local user data from store", r.out))
    ELSE ReturnVal(r, <<UnmarshalLocalUser(r.s[RootLocalUsers][username])>>, Nil)

\* func getLocalUser(username, stateDrv) (*types.LocalUser, error)
getLocalUser(c, f, username) ==
    getLocalUser_read(Read(c, f, RootLocalUsers, username), username)

\* Seeded fault (C13): a listing that takes every error of ReadAll for a
\* failure.
GetLocalUsers_read_NoNormalize(r) ==
    IF r.out # OK
    THEN ReturnVal(r, <<>>, Err("Couldn't fetch users from data store", ""))
    ELSE ReturnVal(r, <<[i \in 1..Len(r.data) |-> UnmarshalLocalUser(r.data[i])]>>,
                   Nil)

\* GetLocalUsers, after ReadAll.
GetLocalUsers_read(r) ==
    IF r.out # OK
    THEN IF r.out = NotFound
         THEN ReturnVal(r, << <<>> >>, Nil)
         ELSE ReturnVal(r, <<>>, Err("Couldn't fetch users from data store", ""))
    ELSE ReturnVal(r, <<[i \in 1..Len(r.data) |-> UnmarshalLocalUser(r.data[i])]>>,
                   Nil)

\* func GetLocalUsers() ([]*types.LocalUser, error)
GetLocalUsers(c, f, q, o) ==
    GetLocalUsers_read(ReadAll(c, f, q, o, RootLocalUsers))

\* func GetLocalUser(username string) (*types.LocalUser, error)
GetLocalUser(c, f, username) == getLocalUser(c, f, username)

\* DeleteLocalUser, after Clear.
DeleteLocalUser_cleared(c) ==
    IF c.out # OK
    THEN Return(c, Err("Failed to clear from store", c.out))
    ELSE Return(c, Nil)

\* DeleteLocalUser, after getLocalUser.
DeleteLocalUser_got(g, f, username) ==
    IF g.err # Nil
    THEN Return(g, g.err)
    ELSE DeleteLocalUser_cleared(ClearState(g, f, RootLocalUsers, username))

\* Seeded fault (C10): a DeleteLocalUser that protects "admin" only.
DeleteLocalUser_AdminOnly(c, f, username) ==
    IF username = RoleString(Admin)
    THEN Return(c, ErrIllegalOperation)
    ELSE DeleteLocalUser_got(getLocalUser(c, f, username), f, username)

\* func DeleteLocalUser(username string) error
DeleteLocalUser(c, f, username) ==
    IF username = RoleString(Admin) \/ username = RoleString(Ops)
    THEN Return(c, ErrIllegalOperation)
    ELSE DeleteLocalUser_got(getLocalUser(c, f, username), f, username)

\* AddLocalUser, after Write.
AddLocalUser_written(w) ==
    IF w.out # OK
    THEN Return(w, Err("Failed to write local user info. to data store", w.out))
    ELSE Return(w, Nil)

\* Seeded fault (C21): an AddLocalUser that stores the object as it came.
AddLocalUser_stored_Raw(user) == user

\* The user object AddLocalUser marshals: the digest generated when the
\* object carries none, the plaintext password emptied.
AddLocalUser_stored(user) ==
    [user EXCEPT !.PasswordHash = IF user.PasswordHash = NoHash
                                  THEN GenPasswordHash(user.Password)
                                  ELSE user.PasswordHash,
                 !.Password = ""]

\* AddLocalUser, the switch on the error of Read.
AddLocalUser_read(r, f, user) ==
    IF r.out = OK
    THEN Return(r, ErrKeyExists)
    ELSE IF r.out = NotFound
    THEN AddLocalUser_written(Write(r, f, RootLocalUsers, user.Username,
                                    MarshalLocalUser(AddLocalUser_stored(user))))
    ELSE Return(r, StoreErr(r.out))

\* func AddLocalUser(user *types.LocalUser) error
AddLocalUser(c, f, user) ==
    AddLocalUser_read(Read(c, f, RootLocalUsers, user.Username), f, user)

\* UpdateLocalUser, the switch on the error of DeleteLocalUser.
UpdateLocalUser_deleted(d, f, username, user) ==
    IF d.err = Nil
    THEN WithDel(AddLocalUser(d, f, IF user.Password # ""
                                    THEN [user EXCEPT !.PasswordHash = NoHash]
                                    ELSE user),
                 d.err)
    ELSE IF d.err = ErrKeyNotFound \/ d.err = ErrIllegalOperation
    THEN WithDel(d, d.err)
    ELSE WithDel(Return(d, Err("Couldn't update user information", username)), d.err)

\* func UpdateLocalUser(username string, user *types.LocalUser) error
UpdateLocalUser(c, f, username, user) ==
    UpdateLocalUser_deleted(DeleteLocalUser(c, f, username), f, username, user)

\* The object AddDefaultUsers builds for a built-in user; the fields it does
\* not set keep Go's zero values.
DefaultUser(userR) ==
    [Username |-> RoleString(userR), Password |-> RoleString(userR),
     Disable |-> FALSE, Principal |-> [UUID |-> "", Role |-> 0],
     PrincipalID |-> "", PasswordHash |-> NoHash]

\* AddDefaultUsers, after the AddLocalUser of the second user.
AddDefaultUsers_second(a) ==
    IF a.err = Nil \/ a.err = ErrKeyExists
    THEN Return(a, Nil)
    ELSE Return(a, a.err)

\* Seeded fault (C12): a bootstrap that takes a stored built-in user for an
\* error.
AddDefaultUsers_first_Strict(a, f) ==
    IF a.err = Nil
    THEN AddDefaultUsers_second(AddLocalUser(a, f, DefaultUser(Ops)))
    ELSE Return(a, a.err)

\* AddDefaultUsers, after the AddLocalUser of the first user.
AddDefaultUsers_first(a, f) ==
    IF a.err = Nil \/ a.err = ErrKeyExists
    THEN AddDefaultUsers_second(AddLocalUser(a, f, DefaultUser(Ops)))
    ELSE Return(a, a.err)

\* func AddDefaultUsers() error
AddDefaultUsers(c, f) ==
    AddDefaultUsers_first(AddLocalUser(c, f, DefaultUser(Admin)), f)

\* ------------------------------------------------------------ proxy helpers

\* The http status codes the helpers answer with.
StatusOK == 200
StatusCreated == 201
StatusNoContent == 204
StatusBadRequest == 400
StatusNotFound == 404
StatusInternalServerError == 500

\* common.IsEmpty
IsEmpty(str) == str = ""

\* What a helper returns, from where r stands: the status code and the
\* response (<<>>: nil, <<v>>: the JSON of v or the message v); err stays the
\* error of the last usermgmt call.
Reply(r, status, body) ==
    [s |-> r.s, tr |-> r.tr, err |-> r.err, status |-> status, body |-> body]

\* The response object ldapMapping{GroupName, Role} of a mapping.
ldapMapping(mapping) ==
    [GroupName |-> mapping.GroupName, Role |-> RoleString(mapping.Principal.Role)]

\* The response object localUser{Username, Disable, Role} of a user.
localUser(user) ==
    [Username |-> user.Username, Disable |-> user.Disable,
     Role |-> RoleString(user.Principal.Role)]

\* getLdapMappingsHelper, after GetLdapMappings.
getLdapMappingsHelper_got(g) ==
    IF g.err # Nil
    THEN Reply(g, StatusInternalServerError, <<g.err>>)
    ELSE Reply(g, StatusOK, <<[i \in 1..Len(g.ret[1]) |-> ldapMapping(g.ret[1][i])]>>)

\* func getLdapMappingsHelper() (int, []byte)
getLdapMappingsHelper(c, f, q, o) ==
    getLdapMappingsHelper_got(GetLdapMappings(c, f, q, o))

\* getLdapMappingHelper, the switch on the error of GetLdapMapping.
getLdapMappingHelper_got(g) ==
    IF g.err = Nil THEN Reply(g, StatusOK, <<ldapMapping(g.ret[1])>>)
    ELSE IF g.err = ErrKeyNotFound THEN Reply(g, StatusNotFound, <<>>)
    ELSE Reply(g, StatusInternalServerError, <<g.err>>)

\* func getLdapMappingHelper(ldapGroupName string) (int, []byte)
getLdapMappingHelper(c, f, ldapGroupName) ==
    IF IsEmpty(ldapGroupName)
    THEN Reply(Return(c, Nil), StatusBadRequest, <<Err("Empty group name", "")>>)
    ELSE getLdapMappingHelper_got(GetLdapMapping(c, f, ldapGroupName))

\* Seeded fault (C18): a mapping object that takes the role of actual.
updateMappingObj_OldRole(actual, role) ==
    [PrincipalID |-> actual.PrincipalID, GroupName |-> actual.GroupName,
     Principal |-> [UUID |-> actual.Principal.UUID, Role |-> actual.Principal.Role]]

\* updateLdapMappingInfo, the mapping object built from actual and the role.
updateMappingObj(actual, role) ==
    [PrincipalID |-> actual.PrincipalID, GroupName |-> actual.GroupName,
     Principal |-> [UUID |-> actual.Principal.UUID, Role |-> role]]

\* updateLdapMappingInfo, the switch on the error of UpdateLdapMapping.
updateLdapMappingInfo_updated(u, actual, role) ==
    IF u.err = Nil
    THEN Reply(u, StatusOK,
               <<[ldapMapping(actual) EXCEPT !.Role = RoleString(role)]>>)
    ELSE IF u.err = ErrKeyNotFound THEN Reply(u, StatusNotFound, <<>>)
    ELSE Reply(u, StatusInternalServerError, <<u.err>>)

\* func updateLdapMappingInfo(updateReq *ldapMapping, actual *types.LdapRoleMapping) (int, []byte)
updateLdapMappingInfo(c, f, updateReq, actual) ==
    IF ~IsEmpty(updateReq.Role)
    THEN IF Role(updateReq.Role).err # Nil
         THEN Reply(c, StatusInternalServerError,
                    <<Err("Invalid role %q", RoleString(Role(updateReq.Role).role))>>)
         ELSE updateLdapMappingInfo_updated(
                  UpdateLdapMapping(c, f, actual.GroupName,
                                    updateMappingObj(actual, Role(updateReq.Role).role)),
                  actual, Role(updateReq.Role).role)
    ELSE Reply(c, StatusOK, <<ldapMapping(actual)>>)

\* updateLdapMappingHelper, the switch on the error of GetLdapMapping.
updateLdapMappingHelper_got(g, f, ldapMappingUpdateReq) ==
    IF g.err = Nil THEN updateLdapMappingInfo(g, f, ldapMappingUpdateReq, g.ret[1])
    ELSE IF g.err = ErrKeyNotFound THEN Reply(g, StatusNotFound, <<>>)
    ELSE Reply(g, StatusInternalServerError, <<g.err>>)

\* func updateLdapMappingHelper(ldapGroupName string, ldapMappingUpdateReq *ldapMapping) (int, []byte)
updateLdapMappingHelper(c, f, ldapGroupName, ldapMappingUpdateReq) ==
    IF IsEmpty(ldapGroupName)
    THEN Reply(Return(c, Nil), StatusBadRequest, <<Err("Empty group name", "")>>)
    ELSE updateLdapMappingHelper_got(GetLdapMapping(c, f, ldapGroupName),
                                     f, ldapMappingUpdateReq)

\* deleteLdapMappingHelper, the switch on the error of DeleteLdapMapping.
deleteLdapMappingHelper_deleted(d) ==
    IF d.err = Nil THEN Reply(d, StatusNoContent, <<>>)
    ELSE IF d.err = ErrKeyNotFound THEN Reply(d, StatusNotFound, <<>>)
    ELSE Reply(d, StatusInternalServerError, <<d.err>>)

\* func deleteLdapMappingHelper(ldapGroupName string) (int, []byte)
deleteLdapMappingHelper(c, f, ldapGroupName) ==
    IF IsEmpty(ldapGroupName)
    THEN Reply(Return(c, Nil), StatusBadRequest, <<Err("Empty group name", "")>>)
    ELSE deleteLdapMappingHelper_deleted(DeleteLdapMapping(c, f, ldapGroupName))

\* addLdapMappingHelper, the switch on the error of AddLdapMapping.
addLdapMappingHelper_added(a, ldapMappingReq, mapping) ==
    IF a.err = Nil THEN Reply(a, StatusCreated, <<ldapMapping(mapping)>>)
    ELSE IF a.err = ErrKeyExists
    THEN Reply(a, StatusBadRequest,
               <<Err("Mapping for group %q exists already", ldapMappingReq.GroupName)>>)
    ELSE Reply(a, StatusInternalServerError, <<a.err>>)

\* addLdapMappingHelper, with the role of the request in hand.
addLdapMappingHelper_role(c, f, ldapMappingReq, pID, role) ==
    IF role.err # Nil
    THEN Reply(Return(c, Nil), StatusBadRequest,
               <<Err("Invalid role %q", ldapMappingReq.Role)>>)
    ELSE addLdapMappingHelper_added(
             AddLdapMapping(c, f, [GroupName |-> ldapMappingReq.GroupName,
                                   Principal |-> [UUID |-> pID, Role |-> role.role],
                                   PrincipalID |-> pID]),
             ldapMappingReq,
             [GroupName |-> ldapMappingReq.GroupName,
              Principal |-> [UUID |-> pID, Role |-> role.role],
              PrincipalID |-> pID])

\* func addLdapMappingHelper(ldapMappingReq *ldapMapping) (int, []byte), pID
\* being the uuid it draws.
addLdapMappingHelper(c, f, ldapMappingReq, pID) ==
    IF IsEmpty(ldapMappingReq.GroupName)
    THEN Reply(Return(c, Nil), StatusBadRequest, <<Err("Empty group name", "")>>)
    ELSE addLdapMappingHelper_role(c, f, ldapMappingReq, pID, Role(ldapMappingReq.Role))

\* getLocalUserHelper, the switch on the error of GetLocalUser.
getLocalUserHelper_got(g) ==
    IF g.err = Nil THEN Reply(g, StatusOK, <<localUser(g.ret[1])>>)
    ELSE IF g.err = ErrKeyNotFound THEN Reply(g, StatusNotFound, <<>>)
    ELSE Reply(g, StatusInternalServerError, <<g.err>>)

\* func getLocalUserHelper(username string) (int, []byte)
getLocalUserHelper(c, f, username) ==
    getLocalUserHelper_got(GetLocalUser(c, f, username))

\* getLocalUsersHelper, after GetLocalUsers.
getLocalUsersHelper_got(g) ==
    IF g.err # Nil
    THEN Reply(g, StatusInternalServerError, <<g.err>>)
    ELSE Reply(g, StatusOK, <<[i \in 1..Len(g.ret[1]) |-> localUser(g.ret[1][i])]>>)

\* func getLocalUsersHelper() (int, []byte)
getLocalUsersHelper(c, f, q, o) ==
    getLocalUsersHelper_got(GetLocalUsers(c, f, q, o))

\* Seeded fault (C23): a user object that keeps the fields of actual the
\* request does not change.
updatedUserObj_Merge(updateReq, actual, role) ==
    [Username |-> actual.Username, Password |-> "",
     Disable |-> updateReq.Disable \/ actual.Disable,
     Principal |-> [UUID |-> actual.PrincipalID,
                    Role |-> IF IsEmpty(updateReq.Role)
                             THEN actual.Principal.Role ELSE role],
     PrincipalID |-> actual.PrincipalID,
     PasswordHash |-> IF ~IsEmpty(updateReq.Password)
                      THEN GenPasswordHash(updateReq.Password)
                      ELSE actual.PasswordHash]

\* updateLocalUserInfo, the user object built from actual and the request:
\* a field the request does not change keeps Go's zero value.
updatedUserObj(updateReq, actual, role) ==
    [Username |-> actual.Username, Password |-> "",
     Disable |-> IF actual.Disable # updateReq.Disable
                 THEN updateReq.Disable ELSE FALSE,
     Principal |-> [UUID |-> actual.PrincipalID, Role |-> role],
     PrincipalID |-> actual.PrincipalID,
     PasswordHash |-> IF ~IsEmpty(updateReq.Password)
                      THEN GenPasswordHash(updateReq.Password) ELSE NoHash]

\* updateLocalUserInfo, the switch on the error of UpdateLocalUser.
updateLocalUserInfo_updated(u, username, obj) ==
    IF u.err = Nil THEN Reply(u, StatusOK, <<localUser(obj)>>)
    ELSE IF u.err = ErrKeyNotFound THEN Reply(u, StatusNotFound, <<>>)
    ELSE IF u.err = ErrIllegalOperation
    THEN Reply(u, StatusBadRequest, <<Err("Cannot update built-in user %q", username)>>)
    ELSE Reply(u, StatusInternalServerError, <<u.err>>)

\* updateLocalUserInfo, with the role of the new object in hand.
updateLocalUserInfo_role(c, f, username, updateReq, actual, role) ==
    updateLocalUserInfo_updated(
        UpdateLocalUser(c, f, username, updatedUserObj(updateReq, actual, role)),
        username, updatedUserObj(updateReq, actual, role))

\* func updateLocalUserInfo(username string, updateReq *localUserCreateRequest,
\*                          actual *types.InternalLocalUser) (int, []byte)
updateLocalUserInfo(c, f, username, updateReq, actual) ==
    IF ~IsEmpty(updateReq.Role)
    THEN IF Role(updateReq.Role).err # Nil
         THEN Reply(c, StatusInternalServerError,
                    <<Err("Failed to map role %q", updateReq.Role)>>)
         ELSE updateLocalUserInfo_role(c, f, username, updateReq, actual,
                                       Role(updateReq.Role).role)
    ELSE updateLocalUserInfo_role(c, f, username, updateReq, actual, 0)

\* updateLocalUserHelper, the switch on the error of GetLocalUser.
updateLocalUserHelper_got(g, f, username, userUpdateReq) ==
    IF g.err = Nil THEN updateLocalUserInfo(g, f, username, userUpdateReq, g.ret[1])
    ELSE IF g.err = ErrKeyNotFound THEN Reply(g, StatusNotFound, <<>>)
    ELSE Reply(g, StatusInternalServerError, <<g.err>>)

\* func updateLocalUserHelper(username string, userUpdateReq *localUserCreateRequest) (int, []byte)
updateLocalUserHelper(c, f, username, userUpdateReq) ==
    IF IsEmpty(username)
    THEN Reply(Return(c, Nil), StatusBadRequest, <<Err("Empty username", "")>>)
    ELSE updateLocalUserHelper_got(GetLocalUser(c, f, username), f, username,
                                   userUpdateReq)

\* deleteLocalUserHelper, the switch on the error of DeleteLocalUser.
deleteLocalUserHelper_deleted(d, username) ==
    IF d.err = Nil THEN Reply(d, StatusNoContent, <<>>)
    ELSE IF d.err = ErrKeyNotFound THEN Reply(d, StatusNotFound, <<>>)
    ELSE IF d.err = ErrIllegalOperation
    THEN Reply(d, StatusBadRequest, <<Err("Cannot delete built-in user %q", username)>>)
    ELSE Reply(d, StatusInternalServerError, <<d.err>>)

\* func deleteLocalUserHelper(username string) (int, []byte)
deleteLocalUserHelper(c, f, username) ==
    IF IsEmpty(username)
    THEN Reply(Return(c, Nil), StatusBadRequest, <<Err("Empty username", "")>>)
    ELSE deleteLocalUserHelper_deleted(DeleteLocalUser(c, f, username), username)

\* addLocalUserHelper, the switch on the error of AddLocalUser.
addLocalUserHelper_added(a, user) ==
    IF a.err = Nil THEN Reply(a, StatusCreated, <<localUser(user)>>)
    ELSE IF a.err = ErrKeyExists
    THEN Reply(a, StatusBadRequest, <<Err("user exists already", "")>>)
    ELSE Reply(a, StatusInternalServerError, <<a.err>>)

\* addLocalUserHelper, with the role of the request in hand.
addLocalUserHelper_role(c, f, userCreateReq, pID, role) ==
    IF role.err # Nil
    THEN Reply(Return(c, Nil), StatusBadRequest,
               <<Err("Invalid role %q", userCreateReq.Role)>>)
    ELSE addLocalUserHelper_added(
             AddLocalUser(c, f, [Username |-> userCreateReq.Username, Password |-> "",
                                 Disable |-> userCreateReq.Disable,
                                 Principal |-> [UUID |-> pID, Role |-> role.role],
                                 PrincipalID |-> pID,
                                 PasswordHash |-> GenPasswordHash(userCreateReq.Password)]),
             [Username |-> userCreateReq.Username, Disable |-> userCreateReq.Disable,
              Principal |-> [UUID |-> pID, Role |-> role.role]])

\* func addLocalUserHelper(userCreateReq *localUserCreateRequest) (int, []byte),
\* pID being the uuid it draws.
addLocalUserHelper(c, f, userCreateReq, pID) ==
    IF IsEmpty(userCreateReq.Username) \/ IsEmpty(userCreateReq.Password)
    THEN Reply(Return(c, Nil), StatusBadRequest,
               <<Err("username/password is empty", "")>>)
    ELSE addLocalUserHelper_role(c, f, userCreateReq, pID, Role(userCreateReq.Role))

\* ------------------------------------------------------------------ callers

\* A call as it begins.
Begin == [s |-> Store, tr |-> <<>>]

\* No store operation of the call fails.
NoFault == [i \in 1..MaxStoreOps |-> OK]

\* The last position a fault choice makes fail (0: none).
LastFault(f) ==
    IF \A i \in 1..MaxStoreOps : f[i] = OK THEN 0
    ELSE CHOOSE i \in 1..MaxStoreOps :
           f[i] # OK /\ \A j \in (i + 1)..MaxStoreOps : f[j] = OK

\* The fault choices of F, each with one more operation that its call
\* (Run(f): the call under the choice f) reaches made to fail.
More(Run(_), F) ==
    UNION { { [f EXCEPT ![i] = e] :
              i \in (LastFault(f) + 1)..Len(Run(f).tr), e \in StoreErrors } :
            f \in F }

\* The fault choices for one call, within what is left of MaxFailures.  No
\* call goes on after its second failed operation, so the third level is
\* empty and the three levels hold every choice.
Faults(Run(_)) ==
    LET b == MaxFailures - failures
        L1 == IF b >= 1 THEN More(Run, {NoFault}) ELSE {}
        L2 == IF b >= 2 THEN More(Run, L1) ELSE {}
        L3 == IF b >= 3 THEN More(Run, L2) ELSE {}
    IN  {NoFault} \cup L1 \cup L2 \cup L3

\* Number of operations of a trace that failed with a store error.
Failed(tr) == Cardinality({i \in 1..Len(tr) : tr[i].out \notin {OK, NotFound}})

\* The principal ids some stored record or principal uses.
UsedPids ==
    DOMAIN principals
    \cup {ldap_mappings[g].PrincipalID : g \in DOMAIN ldap_mappings}
    \cup {local_users[u].principal_id : u \in DOMAIN local_users}

\* uuid.NewV4().String(): an id no record uses.  The ids are opaque, so the
\* first unused one stands for any of them.
NewUUIDs ==
    {AllPids[i] : i \in {j \in 1..NumPids :
                          /\ AllPids[j] \notin UsedPids
                          /\ \A k \in 1..(j - 1) : AllPids[k] \in UsedPids}}

\* The mapping object the callers of AddLdapMapping build
\* (addLdapMappingHelper, TestAddLdapMapping).
NewLdapMapping(groupName, pID, role) ==
    [GroupName |-> groupName, Principal |-> [UUID |-> pID, Role |-> role],
     PrincipalID |-> pID]

\* The user object addLocalUserHelper / updateLocalUserInfo build.
NewLocalUser(username, password, disable, pID, role, hash) ==
    [Username |-> username, Password |-> password, Disable |-> disable,
     Principal |-> [UUID |-> pID, Role |-> role], PrincipalID |-> pID,
     PasswordHash |-> hash]

Call(op, key) == [op |-> op, key |-> key]
\* A call of a helper that takes a request body.
CallReq(op, key, req) == [op |-> op, key |-> key, req |-> req]

\* The values of api under which the caller drives local.go.
LocalApis == {"local", "early"}

\* The usernames the callers name in an add.  A request that follows the
\* bootstrap names a built-in user only once it is stored; AddLocalUser itself
\* does not tell the built-in names from the others.
AddNames ==
    IF api = "early" THEN BuiltInUsers ELSE OtherUsers \cup DOMAIN local_users

\* The usernames the callers name in the other calls.
CallNames == IF api = "early" THEN BuiltInUsers ELSE Usernames

\* What every call leaves behind: the store and the observations of the call.
Returns(r, c, value) ==
    /\ principals' = r.s.principals
    /\ ldap_mappings' = r.s.ldap_mappings
    /\ local_users' = r.s.local_users
    /\ call' = c
    /\ err' = r.err
    /\ ret' = value
    /\ trace' = r.tr
    /\ pre' = Store
    /\ failures' = failures + Failed(r.tr)
    /\ UNCHANGED <<api, layer, procs>>

\* The empty store.  A behaviour drives one namespace (api) through the
\* functions of one layer; the requests that name a built-in user before the
\* bootstrap ("early") are those of the usermgmt functions.
Init ==
    /\ principals = EmptyMap
    /\ ldap_mappings = EmptyMap
    /\ local_users = EmptyMap
    /\ api \in {"ldap"} \cup LocalApis
    /\ layer \in IF api = "early" THEN {"usermgmt"} ELSE {"usermgmt", "proxy"}
    /\ call = Call("none", "")
    /\ err = Nil
    /\ ret = <<>>
    /\ trace = <<>>
    /\ pre = Store
    /\ failures = 0
    /\ added = EmptyMap
    /\ procs = <<>>

\* The principal ids a caller passes with a new object for `key`: a new uuid,
\* or (the caller repeating its call with the same object) the stored one.
PidsFor(m, key, field) ==
    NewUUIDs \cup (IF key \in DOMAIN m THEN {m[key][field]} ELSE {})

DoAddLdapMapping ==
    /\ api = "ldap"
    /\ layer = "usermgmt"
    /\ \E g \in Groups, role \in Roles :
       \E pID \in PidsFor(ldap_mappings, g, "PrincipalID") :
         LET m == NewLdapMapping(g, pID, role)
             Run(f) == AddLdapMapping(Begin, f, m)
         IN  \E f \in Faults(Run) : \E r \in {Run(f)} :
               /\ Returns(r, Call("AddLdapMapping", g), <<>>)
               /\ added' = IF r.err = Nil THEN With(added, g, role) ELSE added

DoDeleteLdapMapping ==
    /\ api = "ldap"
    /\ layer = "usermgmt"
    /\ \E g \in Groups :
         LET Run(f) == DeleteLdapMapping(Begin, f, g)
         IN  \E f \in Faults(Run) : \E r \in {Run(f)} :
               /\ Returns(r, Call("DeleteLdapMapping", g), <<>>)
               /\ added' = IF r.err = Nil THEN Without(added, g) ELSE added

\* updateLdapMappingInfo passes the stored group name and principal id with
\* the new role.
DoUpdateLdapMapping ==
    /\ api = "ldap"
    /\ layer = "usermgmt"
    /\ \E g \in Groups, role \in Roles :
       \E pID \in PidsFor(ldap_mappings, g, "PrincipalID") :
         LET m == NewLdapMapping(g, pID, role)
             Run(f) == UpdateLdapMapping(Begin, f, g, m)
         IN  /\ g \in DOMAIN ldap_mappings => pID = ldap_mappings[g].PrincipalID
             /\ \E f \in Faults(Run) : \E r \in {Run(f)} :
                  /\ Returns(r, Call("UpdateLdapMapping", g), <<>>)
                  /\ added' = IF r.del # Nil THEN added
                              ELSE IF r.err = Nil THEN With(added, g, role)
                              ELSE Without(added, g)

DoGetLdapMapping ==
    /\ api = "ldap"
    /\ layer = "usermgmt"
    /\ \E g \in Groups :
         LET Run(f) == GetLdapMapping(Begin, f, g)
         IN  \E f \in Faults(Run) : \E r \in {Run(f)} :
               /\ Returns(r, Call("GetLdapMapping", g), r.ret)
               /\ UNCHANGED added

DoGetLdapMappings ==
    /\ api = "ldap"
    /\ layer = "usermgmt"
    /\ \E q \in BOOLEAN, o \in Orders(DOMAIN ldap_mappings) :
         LET Run(f) == GetLdapMappings(Begin, f, q, o)
         IN  \E f \in Faults(Run) : \E r \in {Run(f)} :
               /\ Returns(r, Call("GetLdapMappings", ""), r.ret)
               /\ UNCHANGED added

\* The role strings the requests carry: the two role names, none, and one
\* that names no role.
RoleStrings == {RoleString(Admin), RoleString(Ops), "", "bogus"}

\* The bodies of the requests that name an LDAP group: every role string for
\* a group of Groups, and one request with an empty group name.
LdapMappingRequests ==
    {[GroupName |-> g, Role |-> rs] : g \in Groups, rs \in RoleStrings}
    \cup {[GroupName |-> "", Role |-> RoleString(Ops)]}

\* What a helper returned, as the value of the call.
Response(r) == <<[status |-> r.status, body |-> r.body]>>

\* The record of the adds after a call on key with the trace tr: a record
\* written for the key was added with role, a record cleared and not written
\* again is gone.
AddedAfter(tr, root, key, role) ==
    IF \E i \in 1..Len(tr) :
         tr[i].op = "Write" /\ tr[i].root = root /\ tr[i].key = key /\ tr[i].out = OK
    THEN With(added, key, role)
    ELSE IF \E i \in 1..Len(tr) :
         tr[i].op = "ClearState" /\ tr[i].root = root /\ tr[i].key = key /\ tr[i].out = OK
    THEN Without(added, key)
    ELSE added

DoAddLdapMappingHelper ==
    /\ api = "ldap"
    /\ layer = "proxy"
    /\ \E req \in LdapMappingRequests, pID \in NewUUIDs :
         LET g == req.GroupName
             rs == req.Role
             Run(f) == addLdapMappingHelper(Begin, f, req, pID)
         IN  \E f \in Faults(Run) : \E r \in {Run(f)} :
               /\ Returns(r, CallReq("addLdapMappingHelper", g, req), Response(r))
               /\ added' = AddedAfter(r.tr, RootLdapMappings, g, Role(rs).role)

DoUpdateLdapMappingHelper ==
    /\ api = "ldap"
    /\ layer = "proxy"
    /\ \E req \in LdapMappingRequests :
         LET g == req.GroupName
             rs == req.Role
             Run(f) == updateLdapMappingHelper(Begin, f, g, req)
         IN  \E f \in Faults(Run) : \E r \in {Run(f)} :
               /\ Returns(r, CallReq("updateLdapMappingHelper", g, req), Response(r))
               /\ added' = AddedAfter(r.tr, RootLdapMappings, g, Role(rs).role)

DoDeleteLdapMappingHelper ==
    /\ api = "ldap"
    /\ layer = "proxy"
    /\ \E g \in Groups \cup {""} :
         LET Run(f) == deleteLdapMappingHelper(Begin, f, g)
         IN  \E f \in Faults(Run) : \E r \in {Run(f)} :
               /\ Returns(r, Call("deleteLdapMappingHelper", g), Response(r))
               /\ added' = AddedAfter(r.tr, RootLdapMappings, g, Invalid)

DoGetLdapMappingHelper ==
    /\ api = "ldap"
    /\ layer = "proxy"
    /\ \E g \in Groups \cup {""} :
         LET Run(f) == getLdapMappingHelper(Begin, f, g)
         IN  \E f \in Faults(Run) : \E r \in {Run(f)} :
               /\ Returns(r, Call("getLdapMappingHelper", g), Response(r))
               /\ UNCHANGED added

DoGetLdapMappingsHelper ==
    /\ api = "ldap"
    /\ layer = "proxy"
    /\ \E q \in BOOLEAN, o \in Orders(DOMAIN ldap_mappings) :
         LET Run(f) == getLdapMappingsHelper(Begin, f, q, o)
         IN  \E f \in Faults(Run) : \E r \in {Run(f)} :
               /\ Returns(r, Call("getLdapMappingsHelper", ""), Response(r))
               /\ UNCHANGED added

NextLdap ==
    \/ DoAddLdapMapping
    \/ DoDeleteLdapMapping
    \/ DoUpdateLdapMapping
    \/ DoGetLdapMapping
    \/ DoGetLdapMappings
    \/ DoAddLdapMappingHelper
    \/ DoUpdateLdapMappingHelper
    \/ DoDeleteLdapMappingHelper
    \/ DoGetLdapMappingHelper
    \/ DoGetLdapMappingsHelper

\* addLocalUserHelper: the password is hashed by the caller, the plaintext
\* field of the object is left empty.
DoAddLocalUser ==
    /\ api \in LocalApis
    /\ layer = "usermgmt"
    /\ \E u \in AddNames, role \in Roles,
          disable \in BOOLEAN, pw \in Passwords :
       \E pID \in PidsFor(local_users, u, "principal_id") :
         LET user == NewLocalUser(u, "", disable, pID, role, GenPasswordHash(pw))
             Run(f) == AddLocalUser(Begin, f, user)
         IN  \E f \in Faults(Run) : \E r \in {Run(f)} :
               /\ Returns(r, Call("AddLocalUser", u), <<>>)
               /\ added' = IF r.err = Nil THEN With(added, u, role) ELSE added

DoDeleteLocalUser ==
    /\ api \in LocalApis
    /\ layer = "usermgmt"
    /\ \E u \in CallNames :
         LET Run(f) == DeleteLocalUser(Begin, f, u)
         IN  \E f \in Faults(Run) : \E r \in {Run(f)} :
               /\ Returns(r, Call("DeleteLocalUser", u), <<>>)
               /\ added' = IF r.err = Nil THEN Without(added, u) ELSE added

\* updateLocalUserInfo passes the stored username and principal id, the role,
\* the disabled flag and either a new digest or none.
DoUpdateLocalUser ==
    /\ api \in LocalApis
    /\ layer = "usermgmt"
    /\ \E u \in CallNames, role \in Roles, disable \in BOOLEAN,
          hash \in {NoHash} \cup {GenPasswordHash(pw) : pw \in Passwords} :
       \E pID \in PidsFor(local_users, u, "principal_id") :
         LET user == NewLocalUser(u, "", disable, pID, role, hash)
             Run(f) == UpdateLocalUser(Begin, f, u, user)
         IN  /\ u \in DOMAIN local_users => pID = local_users[u].principal_id
             /\ \E f \in Faults(Run) : \E r \in {Run(f)} :
                  /\ Returns(r, Call("UpdateLocalUser", u), <<>>)
                  /\ added' = IF r.del # Nil THEN added
                              ELSE IF r.err = Nil THEN With(added, u, role)
                              ELSE Without(added, u)

DoGetLocalUser ==
    /\ api \in LocalApis
    /\ layer = "usermgmt"
    /\ \E u \in CallNames :
         LET Run(f) == GetLocalUser(Begin, f, u)
         IN  \E f \in Faults(Run) : \E r \in {Run(f)} :
               /\ Returns(r, Call("GetLocalUser", u), r.ret)
               /\ UNCHANGED added

DoGetLocalUsers ==
    /\ api \in LocalApis
    /\ layer = "usermgmt"
    /\ \E q \in BOOLEAN, o \in Orders(DOMAIN local_users) :
         LET Run(f) == GetLocalUsers(Begin, f, q, o)
         IN  \E f \in Faults(Run) : \E r \in {Run(f)} :
               /\ Returns(r, Call("GetLocalUsers", ""), r.ret)
               /\ UNCHANGED added

\* The bodies of the requests that name a user of `names`.  For a user that
\* is not built in: every combination of a password or none, the disable flag
\* and a recognized role or none.  For each other case (an unrecognized role,
\* a built-in user, an empty username) one request that differs from a
\* request of the first kind in that only.
LocalUserRequests(names) ==
    {[Username |-> u, Password |-> pw, Disable |-> disable, Role |-> rs] :
        u \in names \ BuiltInUsers, pw \in Passwords \cup {""},
        disable \in BOOLEAN, rs \in RoleStrings \ {"bogus"}}
    \cup {[Username |-> u, Password |-> pw, Disable |-> FALSE, Role |-> rs] :
            u \in names, pw \in Passwords, rs \in {RoleString(Ops), "bogus"}}
    \cup {[Username |-> "", Password |-> pw, Disable |-> FALSE,
           Role |-> RoleString(Ops)] : pw \in Passwords}

DoAddLocalUserHelper ==
    /\ api \in LocalApis
    /\ layer = "proxy"
    /\ \E req \in LocalUserRequests(AddNames), pID \in NewUUIDs :
         LET Run(f) == addLocalUserHelper(Begin, f, req, pID)
         IN  \E f \in Faults(Run) : \E r \in {Run(f)} :
               /\ Returns(r, CallReq("addLocalUserHelper", req.Username, req),
                          Response(r))
               /\ added' = AddedAfter(r.tr, RootLocalUsers, req.Username,
                                       Role(req.Role).role)

DoUpdateLocalUserHelper ==
    /\ api \in LocalApis
    /\ layer = "proxy"
    /\ \E req \in LocalUserRequests(CallNames) :
         LET u == req.Username
             Run(f) == updateLocalUserHelper(Begin, f, u, req)
         IN  \E f \in Faults(Run) : \E r \in {Run(f)} :
               /\ Returns(r, CallReq("updateLocalUserHelper", u, req), Response(r))
               /\ added' = AddedAfter(r.tr, RootLocalUsers, u,
                                       IF IsEmpty(req.Role) THEN 0
                                       ELSE Role(req.Role).role)

DoDeleteLocalUserHelper ==
    /\ api \in LocalApis
    /\ layer = "proxy"
    /\ \E u \in CallNames \cup {""} :
         LET Run(f) == deleteLocalUserHelper(Begin, f, u)
         IN  \E f \in Faults(Run) : \E r \in {Run(f)} :
               /\ Returns(r, Call("deleteLocalUserHelper", u), Response(r))
               /\ added' = AddedAfter(r.tr, RootLocalUsers, u, Invalid)

DoGetLocalUserHelper ==
    /\ api \in LocalApis
    /\ layer = "proxy"
    /\ \E u \in CallNames :
         LET Run(f) == getLocalUserHelper(Begin, f, u)
         IN  \E f \in Faults(Run) : \E r \in {Run(f)} :
               /\ Returns(r, Call("getLocalUserHelper", u), Response(r))
               /\ UNCHANGED added

DoGetLocalUsersHelper ==
    /\ api \in LocalApis
    /\ layer = "proxy"
    /\ \E q \in BOOLEAN, o \in Orders(DOMAIN local_users) :
         LET Run(f) == getLocalUsersHelper(Begin, f, q, o)
         IN  \E f \in Faults(Run) : \E r \in {Run(f)} :
               /\ Returns(r, Call("getLocalUsersHelper", ""), Response(r))
               /\ UNCHANGED added

\* ----------------------------------------------------------- token checks

StatusUnauthorized == 401

\* The token of a local user, and the strings a request carries as its token.
TokenOf(username) == "token:" \o username
TokenStrings == {"", "garbage"} \cup {TokenOf(u) : u \in Usernames}

\* auth.ParseToken(tokenStr): the token object of a token that is one of the
\* issued ones and has not expired, an error for every other string.
ParseToken(tokenStr, expired) ==
    IF expired \/ \A u \in Usernames : tokenStr # TokenOf(u)
    THEN [token |-> <<>>, err |-> Err("ErrParsingToken", "")]
    ELSE [token |-> <<[user |-> CHOOSE u \in Usernames : tokenStr = TokenOf(u)]>>,
          err |-> Nil]

\* authError(w, statusCode, msg) followed by return false, nil.
authError(c, statusCode, msg) ==
    [s |-> c.s, tr |-> c.tr, err |-> Nil, valid |-> FALSE, token |-> <<>>,
     written |-> <<[status |-> statusCode, body |-> msg]>>]

\* Seeded fault (C28): an isTokenValid that looks the user of the token up and
\* rejects the token of a user who is gone or disabled.
isTokenValid_ActiveOnly(c, tokenStr, parsed) ==
    IF tokenStr = "" THEN authError(c, StatusUnauthorized, "Empty auth token")
    ELSE IF parsed.err # Nil \/ parsed.token[1].user \notin DOMAIN c.s.local_users
    THEN authError(c, StatusBadRequest, "Bad token")
    ELSE IF c.s.local_users[parsed.token[1].user].disable
    THEN authError(c, StatusBadRequest, "Bad token")
    ELSE [s |-> c.s, tr |-> c.tr, err |-> Nil, valid |-> TRUE,
          token |-> parsed.token, written |-> <<>>]

\* func isTokenValid(tokenStr string, w http.ResponseWriter) (bool, *auth.Token)
\* parsed is what auth.ParseToken answers for tokenStr.
isTokenValid(c, tokenStr, parsed) ==
    IF tokenStr = "" THEN authError(c, StatusUnauthorized, "Empty auth token")
    ELSE IF parsed.err # Nil THEN authError(c, StatusBadRequest, "Bad token")
    ELSE [s |-> c.s, tr |-> c.tr, err |-> Nil, valid |-> TRUE,
          token |-> parsed.token, written |-> <<>>]

\* A request with a token reaches the proxy; it may arrive after the token
\* has expired.
DoIsTokenValid ==
    /\ api = "local"
    /\ layer = "proxy"
    /\ \E tokenStr \in TokenStrings, expired \in BOOLEAN :
       \E r \in {isTokenValid(Begin, tokenStr, ParseToken(tokenStr, expired))} :
         /\ Returns(r, CallReq("isTokenValid", tokenStr, [expired |-> expired]),
                    <<[valid |-> r.valid, token |-> r.token, written |-> r.written]>>)
         /\ UNCHANGED added

\* The default users a run of AddDefaultUsers added, with the role their
\* object carries (the zero RoleType).
DefaultsAdded(tr) ==
    [u \in {tr[i].key : i \in {j \in 1..Len(tr) : tr[j].op = "Write" /\ tr[j].out = OK}}
       |-> Admin]

DoAddDefaultUsers ==
    /\ api \in LocalApis
    /\ LET Run(f) == AddDefaultUsers(Begin, f)
       IN  \E f \in Faults(Run) : \E r \in {Run(f)} :
             /\ Returns(r, Call("AddDefaultUsers", ""), <<>>)
             /\ added' = [u \in DOMAIN added \cup DOMAIN DefaultsAdded(r.tr) |->
                            IF u \in DOMAIN DefaultsAdded(r.tr)
                            THEN DefaultsAdded(r.tr)[u] ELSE added[u]]

NextLocal ==
    \/ DoAddLocalUser
    \/ DoDeleteLocalUser
    \/ DoUpdateLocalUser
    \/ DoGetLocalUser
    \/ DoGetLocalUsers
    \/ DoAddLocalUserHelper
    \/ DoUpdateLocalUserHelper
    \/ DoDeleteLocalUserHelper
    \/ DoGetLocalUserHelper
    \/ DoGetLocalUsersHelper
    \/ DoIsTokenValid
    \/ DoAddDefaultUsers

Next == NextLdap \/ NextLocal

Spec == Init /\ [][Next]_vars

\* --------------------------------------------------------- concurrent calls
\* Two goroutines of the proxy serve one request each.  A call shares nothing
\* with the other but the store, so a step of a call is one store operation
\* with what the code does between it and the next; no store operation fails
\* but a ClearState of a key that is gone, which the driver may refuse.

Procs == {1, 2}

\* The requests of the concurrent updates: each changes one field of the
\* user (admin, enabled) the updates find.
RaceRequests ==
    {[Username |-> "alice", Password |-> "", Disable |-> FALSE, Role |-> RoleString(Ops)],
     [Username |-> "alice", Password |-> "", Disable |-> TRUE, Role |-> ""],
     [Username |-> "alice", Password |-> "pw2", Disable |-> FALSE, Role |-> ""]}

\* A call of AddLdapMapping (the object addLdapMappingHelper builds) or of
\* updateLocalUserHelper as it begins.
StartAdd(p, g, role) ==
    [op |-> "AddLdapMapping", pc |-> "getLdapMapping", key |-> g, req |-> <<>>,
     obj |-> NewLdapMapping(g, AllPids[p], role), ret |-> <<>>, raced |-> FALSE]
StartUpdate(req) ==
    [op |-> "updateLocalUserHelper", pc |-> "GetLocalUser", key |-> req.Username,
     req |-> req, obj |-> <<>>, ret |-> <<>>, raced |-> FALSE]

\* A call of DeleteLdapMapping as it begins.
StartDelete(g) ==
    [op |-> "DeleteLdapMapping", pc |-> "getLdapMapping", key |-> g, req |-> <<>>,
     obj |-> <<>>, ret |-> <<>>, raced |-> FALSE]

\* The store the concurrent updates find: the user addLocalUserHelper stored.
RaceUsers ==
    [u \in OtherUsers |->
        MarshalLocalUser(AddLocalUser_stored(
            NewLocalUser(u, "", FALSE, AllPids[3], Admin, GenPasswordHash("pw"))))]

\* The concurrent adds find an empty store, the concurrent updates the user
\* of RaceUsers, the concurrent deletes the mappings AddLdapMapping stored for
\* some of the groups, each with its Principal.
InitRace ==
    /\ call = Call("none", "")
    /\ err = Nil
    /\ ret = <<>>
    /\ trace = <<>>
    /\ failures = 0
    /\ added = EmptyMap
    /\ \/ /\ api = "ldap" /\ layer = "usermgmt"
          /\ principals = EmptyMap
          /\ ldap_mappings = EmptyMap
          /\ local_users = EmptyMap
          /\ procs \in {[p \in Procs |-> StartAdd(p, g[p], role[p])] :
                           g \in [Procs -> Groups], role \in [Procs -> Roles]}
       \/ /\ api = "local" /\ layer = "proxy"
          /\ principals = EmptyMap
          /\ ldap_mappings = EmptyMap
          /\ local_users = RaceUsers
          /\ procs \in [Procs -> {StartUpdate(req) : req \in RaceRequests}]
       \/ /\ api = "ldap" /\ layer = "usermgmt"
          /\ \E G \in SUBSET Groups, role \in Roles :
               \E pid \in [G -> {AllPids[1], AllPids[2]}] :
                 /\ \A g, h \in G : g # h => pid[g] # pid[h]
                 /\ ldap_mappings =
                      [g \in G |-> MarshalLdapMapping(NewLdapMapping(g, pid[g], role))]
                 /\ principals =
                      [id \in {pid[g] : g \in G} |->
                          MarshalPrincipal([UUID |-> id, Role |-> role])]
                 /\ G # {}
          /\ local_users = EmptyMap
          /\ procs \in {[p \in Procs |-> StartDelete(g[p])] : g \in [Procs -> Groups]}
    /\ pre = Store

\* A step of call p: the call goes on at pc, or returns value; s is the store
\* the step leaves.  raced records that the step was made while the other
\* call was between its first store operation and its return.
Step(p, s, pc, obj, value) ==
    /\ procs' = [procs EXCEPT
                   ![p].pc = pc, ![p].obj = obj, ![p].ret = value,
                   ![p].raced = procs[p].raced \/
                       \E q \in Procs \ {p} :
                           procs[q].pc \notin {"getLdapMapping", "GetLocalUser", "done"}]
    /\ principals' = s.principals
    /\ ldap_mappings' = s.ldap_mappings
    /\ local_users' = s.local_users
    /\ UNCHANGED <<api, layer, call, err, ret, trace, pre, failures, added>>
Goto(p, s, pc) == Step(p, s, pc, procs[p].obj, <<>>)
Done(p, s, value) == Step(p, s, "done", procs[p].obj, <<value>>)

At(p, op, pc) == p \in DOMAIN procs /\ procs[p].op = op /\ procs[p].pc = pc

\* AddLdapMapping: getLdapMapping and the switch on its error.
AddLdapMapping_getLdapMapping(p) ==
    /\ At(p, "AddLdapMapping", "getLdapMapping")
    /\ \E g \in {getLdapMapping(Begin, NoFault, procs[p].key)} :
         IF g.err = Nil THEN Done(p, Store, ErrKeyExists)
         ELSE IF g.err = ErrKeyNotFound THEN Goto(p, Store, "addPrincipal")
         ELSE Done(p, Store, g.err)

\* addPrincipal: the Read and the switch on its error.
AddLdapMapping_addPrincipal(p) ==
    /\ At(p, "AddLdapMapping", "addPrincipal")
    /\ \E r \in {Read(Begin, NoFault, RootPrincipals, procs[p].obj.Principal.UUID)} :
         IF r.out = OK
         THEN Done(p, Store, Err("ErrKeyExists: %q", procs[p].obj.Principal.UUID))
         ELSE IF r.out = NotFound THEN Goto(p, Store, "addPrincipal_Write")
         ELSE Done(p, Store, StoreErr(r.out))

\* Seeded fault (C22): an addPrincipal that writes nothing.
AddLdapMapping_addPrincipal_Skip(p) ==
    /\ At(p, "AddLdapMapping", "addPrincipal_Write")
    /\ Goto(p, Store, "Write")

\* addPrincipal: the Write of the principal.
AddLdapMapping_addPrincipal_Write(p) ==
    /\ At(p, "AddLdapMapping", "addPrincipal_Write")
    /\ \E w \in {Write(Begin, NoFault, RootPrincipals, procs[p].obj.Principal.UUID,
                        MarshalPrincipal(procs[p].obj.Principal))} :
         Goto(p, w.s, "Write")

\* AddLdapMapping: the Write of the mapping.
AddLdapMapping_Write(p) ==
    /\ At(p, "AddLdapMapping", "Write")
    /\ \E w \in {Write(Begin, NoFault, RootLdapMappings, procs[p].key,
                        MarshalLdapMapping(procs[p].obj))} :
         Done(p, w.s, Nil)

\* updateLocalUserHelper: GetLocalUser, and updateLocalUserInfo up to its
\* call of UpdateLocalUser.
updateLocalUserHelper_GetLocalUser(p) ==
    /\ At(p, "updateLocalUserHelper", "GetLocalUser")
    /\ \E g \in {GetLocalUser(Begin, NoFault, procs[p].key)} :
         IF g.err # Nil
         THEN Done(p, Store, Response(updateLocalUserHelper_got(
                                         g, NoFault, procs[p].key, procs[p].req))[1])
         ELSE IF ~IsEmpty(procs[p].req.Role) /\ Role(procs[p].req.Role).err # Nil
         THEN Done(p, Store, Response(updateLocalUserInfo(
                                         g, NoFault, procs[p].key, procs[p].req,
                                         g.ret[1]))[1])
         ELSE Step(p, Store, "DeleteLocalUser",
                   updatedUserObj(procs[p].req, g.ret[1],
                                  IF IsEmpty(procs[p].req.Role) THEN 0
                                  ELSE Role(procs[p].req.Role).role),
                   <<>>)

\* What updateLocalUserInfo returns when UpdateLocalUser returned e.
Updated(p, e) ==
    Response(updateLocalUserInfo_updated(Return(Begin, e), procs[p].key,
                                         procs[p].obj))[1]

\* UpdateLocalUser: DeleteLocalUser up to its Clear.
updateLocalUserHelper_DeleteLocalUser(p) ==
    /\ At(p, "updateLocalUserHelper", "DeleteLocalUser")
    /\ IF procs[p].key \in BuiltInUsers
       THEN Done(p, Store, Updated(p, ErrIllegalOperation))
       ELSE \E g \in {getLocalUser(Begin, NoFault, procs[p].key)} :
              IF g.err = Nil THEN Goto(p, Store, "Clear")
              ELSE IF g.err = ErrKeyNotFound THEN Done(p, Store, Updated(p, g.err))
              ELSE Done(p, Store, Updated(p, Err("Couldn't update user information",
                                                 procs[p].key)))

\* DeleteLocalUser: the Clear, which the driver may refuse for a key that is
\* gone.
updateLocalUserHelper_Clear(p) ==
    /\ At(p, "updateLocalUserHelper", "Clear")
    /\ \E out \in IF procs[p].key \in DOMAIN local_users
                    THEN {OK} ELSE {OK} \cup StoreErrors :
       \E c \in {ClearState(Begin, [NoFault EXCEPT ![1] = out], RootLocalUsers,
                             procs[p].key)} :
         IF c.out # OK
         THEN Done(p, c.s, Updated(p, Err("Couldn't update user information",
                                          procs[p].key)))
         ELSE Goto(p, c.s, "AddLocalUser")

\* AddLocalUser: the Read and the switch on its error.
updateLocalUserHelper_AddLocalUser(p) ==
    /\ At(p, "updateLocalUserHelper", "AddLocalUser")
    /\ \E r \in {Read(Begin, NoFault, RootLocalUsers, procs[p].key)} :
         IF r.out = OK THEN Done(p, Store, Updated(p, ErrKeyExists))
         ELSE IF r.out = NotFound THEN Goto(p, Store, "Write")
         ELSE Done(p, Store, Updated(p, StoreErr(r.out)))

\* AddLocalUser: the Write of the user.
updateLocalUserHelper_Write(p) ==
    /\ At(p, "updateLocalUserHelper", "Write")
    /\ \E w \in {Write(Begin, NoFault, RootLocalUsers, procs[p].key,
                        MarshalLocalUser(AddLocalUser_stored(procs[p].obj)))} :
         Done(p, w.s, Updated(p, Nil))

\* DeleteLdapMapping: getLdapMapping and the return on its error.
DeleteLdapMapping_getLdapMapping(p) ==
    /\ At(p, "DeleteLdapMapping", "getLdapMapping")
    /\ \E g \in {getLdapMapping(Begin, NoFault, procs[p].key)} :
         IF g.err # Nil THEN Done(p, Store, g.err)
         ELSE Step(p, Store, "deletePrincipal", g.ret[1], <<>>)

\* deletePrincipal: the ClearState of the Principal, which the driver may
\* refuse for a key that is gone.
DeleteLdapMapping_deletePrincipal(p) ==
    /\ At(p, "DeleteLdapMapping", "deletePrincipal")
    /\ \E out \in IF procs[p].obj.Principal.UUID \in DOMAIN principals
                    THEN {OK} ELSE {OK} \cup StoreErrors :
       \E d \in {deletePrincipal(Begin, [NoFault EXCEPT ![1] = out],
                                 procs[p].obj.Principal)} :
         IF d.err # Nil THEN Done(p, d.s, d.err)
         ELSE Goto(p, d.s, "ClearState")

\* Seeded fault (C33): a failed ClearState of the mapping with no cleanup.
DeleteLdapMapping_ClearState_NoCleanup(p) ==
    /\ At(p, "DeleteLdapMapping", "ClearState")
    /\ \E out \in IF procs[p].key \in DOMAIN ldap_mappings
                    THEN {OK} ELSE {OK} \cup StoreErrors :
       \E c \in {ClearState(Begin, [NoFault EXCEPT ![1] = out], RootLdapMappings,
                             procs[p].key)} :
         IF c.out # OK
         THEN Done(p, c.s, Err("Failed to delete group from store", c.out))
         ELSE Done(p, c.s, Nil)

\* DeleteLdapMapping: the ClearState of the mapping, which the driver may
\* refuse for a key that is gone; the error to return is kept while the
\* cleanup runs.
DeleteLdapMapping_ClearState(p) ==
    /\ At(p, "DeleteLdapMapping", "ClearState")
    /\ \E out \in IF procs[p].key \in DOMAIN ldap_mappings
                    THEN {OK} ELSE {OK} \cup StoreErrors :
       \E c \in {ClearState(Begin, [NoFault EXCEPT ![1] = out], RootLdapMappings,
                             procs[p].key)} :
         IF c.out # OK
         THEN Step(p, c.s, "addPrincipal", procs[p].obj,
                   <<Err("Failed to delete group from store", c.out)>>)
         ELSE Done(p, c.s, Nil)

\* The cleanup, addPrincipal: the Read and the switch on its error.  Its
\* error is dropped.
DeleteLdapMapping_addPrincipal(p) ==
    /\ At(p, "DeleteLdapMapping", "addPrincipal")
    /\ \E r \in {Read(Begin, NoFault, RootPrincipals, procs[p].obj.Principal.UUID)} :
         IF r.out = NotFound
         THEN Step(p, Store, "addPrincipal_Write", procs[p].obj, procs[p].ret)
         ELSE Done(p, Store, procs[p].ret[1])

\* The cleanup, addPrincipal: the Write of the Principal.
DeleteLdapMapping_addPrincipal_Write(p) ==
    /\ At(p, "DeleteLdapMapping", "addPrincipal_Write")
    /\ \E w \in {Write(Begin, NoFault, RootPrincipals, procs[p].obj.Principal.UUID,
                        MarshalPrincipal(procs[p].obj.Principal))} :
         Done(p, w.s, procs[p].ret[1])

NextRace ==
    \E p \in Procs :
        \/ AddLdapMapping_getLdapMapping(p)
        \/ AddLdapMapping_addPrincipal(p)
        \/ AddLdapMapping_addPrincipal_Write(p)
        \/ AddLdapMapping_Write(p)
        \/ updateLocalUserHelper_GetLocalUser(p)
        \/ updateLocalUserHelper_DeleteLocalUser(p)
        \/ updateLocalUserHelper_Clear(p)
        \/ updateLocalUserHelper_AddLocalUser(p)
        \/ updateLocalUserHelper_Write(p)
        \/ DeleteLdapMapping_getLdapMapping(p)
        \/ DeleteLdapMapping_deletePrincipal(p)
        \/ DeleteLdapMapping_ClearState(p)
        \/ DeleteLdapMapping_addPrincipal(p)
        \/ DeleteLdapMapping_addPrincipal_Write(p)

SpecRace == InitRace /\ [][NextRace]_vars

\* ------------------------------------------------- authorization replies
\* The claim key of an Authorization is a string read character by character:
\* a string is the sequence of its characters.

\* TenantClaimKey = "tenant:"
TenantClaimKey == <<"t", "e", "n", "a", "n", "t", ":">>

\* Seeded fault (C30): a TrimPrefix that leaves the string as it is.
TrimPrefix_Kept(s, prefix) == s

\* strings.TrimPrefix(s, prefix)
TrimPrefix(s, prefix) ==
    IF Len(s) >= Len(prefix) /\ SubSeq(s, 1, Len(prefix)) = prefix
    THEN SubSeq(s, Len(prefix) + 1, Len(s))
    ELSE s

\* func convertAuthz(authz types.Authorization) GetAuthorizationReply
convertAuthz(authz) ==
    [AuthzUUID |-> authz.UUID,
     PrincipalName |-> authz.PrincipalName,
     TenantName |-> TrimPrefix(authz.ClaimKey, TenantClaimKey),
     Local |-> authz.Local,
     Role |-> authz.ClaimValue]

\* The tenant names and the claim keys of the Authorizations: the global key,
\* the keys of the tenants, and keys that do not begin with the prefix.
TenantNames == {<<>>, <<"a">>, <<"b", "1">>, TenantClaimKey \o <<"a">>}
ClaimKeys ==
    {<<>>} \cup {TenantClaimKey \o name : name \in TenantNames}
           \cup {<<"t">>, <<"t", "e", "n", "a", "n", "t">>, <<"a", ":", "b">>}

\* The Authorization objects convertAuthz is given.
Authorizations ==
    [UUID : {AllPids[1], AllPids[2]}, PrincipalName : Groups \cup OtherUsers,
     ClaimKey : ClaimKeys, Local : BOOLEAN, ClaimValue : RoleStrings]

\* An Authorization is in hand (call.req); nothing is stored.
InitAuthz ==
    /\ principals = EmptyMap
    /\ ldap_mappings = EmptyMap
    /\ local_users = EmptyMap
    /\ api = "ldap"
    /\ layer = "proxy"
    /\ call \in {CallReq("Authorization", authz.UUID, authz) : authz \in Authorizations}
    /\ err = Nil
    /\ ret = <<>>
    /\ trace = <<>>
    /\ pre = Store
    /\ failures = 0
    /\ added = EmptyMap
    /\ procs = <<>>

\* The reply of the add and get tenant authorization calls is built.
DoConvertAuthz ==
    /\ call.op = "Authorization"
    /\ call' = CallReq("convertAuthz", call.key, call.req)
    /\ ret' = <<convertAuthz(call.req)>>
    /\ UNCHANGED <<principals, ldap_mappings, local_users, api, layer, err, trace,
                   pre, failures, added, procs>>

SpecAuthz == InitAuthz /\ [][DoConvertAuthz]_vars

\* ------------------------------------------------------------------- claims

\* The root of the owning records of the API in use.
OwnRoot == IF api = "ldap" THEN RootLdapMappings ELSE RootLocalUsers

AddOps == {"AddLdapMapping", "AddLocalUser"}
DeleteOps == {"DeleteLdapMapping", "DeleteLocalUser"}
UpdateOps == {"UpdateLdapMapping", "UpdateLocalUser"}
GetOps == {"GetLdapMapping", "GetLocalUser"}

\* The last call made no store operation that failed.
CallClean == Failed(trace) = 0

\* The trace entry is a Write / ClearState / Read of root.
IsOp(e, name, root) == e.op = name /\ e.root = root

\* The last call changed or tried to change the store.
Mutating == \E i \in 1..Len(trace) : trace[i].op \in {"Write", "ClearState"}

\* The stored principals whose id is pid.
PrincipalsWithId(pid) == {k \in DOMAIN principals : principals[k].uuid = pid}

\* C1: with no store failure, every stored LDAP mapping has exactly one stored
\* Principal with the mapping's principal id, and that Principal has the
\* mapping's role; every stored Principal is owned by exactly one mapping.
C1_LdapConsistent ==
    (api = "ldap" /\ failures = 0) =>
        /\ \A g \in DOMAIN ldap_mappings :
             /\ Cardinality(PrincipalsWithId(ldap_mappings[g].PrincipalID)) = 1
             /\ \A k \in PrincipalsWithId(ldap_mappings[g].PrincipalID) :
                  principals[k].roletype = ldap_mappings[g].Principal.roletype
        /\ \A k \in DOMAIN principals :
             Cardinality({g \in DOMAIN ldap_mappings :
                            ldap_mappings[g].PrincipalID = principals[k].uuid}) = 1

\* C1 witness: an update succeeded with both groups mapped and no failure.
C1_Witness ==
    /\ call.op = "UpdateLdapMapping" /\ err = Nil /\ failures = 0
    /\ DOMAIN ldap_mappings = Groups
    /\ \E g \in DOMAIN pre.ldap_mappings :
         pre.ldap_mappings[g].Principal.roletype # ldap_mappings[g].Principal.roletype

\* C2: with no store failure and only add / delete / update calls made, every
\* stored local user owns exactly one stored Principal whose id is the
\* record's principal id.
C2_LocalUserOwnsPrincipal ==
    (api = "local" /\ failures = 0 /\ DOMAIN local_users \cap BuiltInUsers = {}) =>
        \A u \in DOMAIN local_users :
            Cardinality(PrincipalsWithId(local_users[u].principal_id)) = 1

\* C2 counterexample state: a local user stored by an add that returned nil,
\* with no Principal in the store.
C2_UserWithoutPrincipal ==
    /\ call.op = "AddLocalUser" /\ err = Nil /\ failures = 0
    /\ call.key \in DOMAIN local_users
    /\ PrincipalsWithId(local_users[call.key].principal_id) = {}

\* The positions of the trace where a Principal was written and the write of
\* the mapping that follows failed.
AddHalfDone ==
    {i \in 1..(Len(trace) - 1) :
        /\ IsOp(trace[i], "Write", RootPrincipals) /\ trace[i].out = OK
        /\ IsOp(trace[i + 1], "Write", RootLdapMappings) /\ trace[i + 1].out # OK}

\* C3: in add, when the Principal was written and the write of the mapping
\* then failed, the next store operation is the ClearState of that Principal;
\* when it succeeded, the call returned an error, neither the mapping nor the
\* Principal is stored, and the store of an AddLdapMapping call is as it was
\* before the call.
C3_AddCompensation ==
    \A i \in AddHalfDone :
        /\ Len(trace) = i + 2
        /\ IsOp(trace[i + 2], "ClearState", RootPrincipals)
        /\ trace[i + 2].key = trace[i].key
        /\ err # Nil
        /\ trace[i + 2].out = OK =>
             /\ trace[i + 1].key \notin DOMAIN ldap_mappings
             /\ trace[i].key \notin DOMAIN principals
             /\ call.op = "AddLdapMapping" => Store = pre

\* C3 witness: an AddLdapMapping whose mapping write failed and whose
\* compensating delete succeeded.
C3_Witness ==
    /\ call.op = "AddLdapMapping"
    /\ \E i \in AddHalfDone : trace[i + 2].out = OK

\* The positions of the trace where a Principal was cleared and the clear of
\* the mapping that follows failed.
DeleteHalfDone ==
    {i \in 1..(Len(trace) - 1) :
        /\ IsOp(trace[i], "ClearState", RootPrincipals) /\ trace[i].out = OK
        /\ IsOp(trace[i + 1], "ClearState", RootLdapMappings) /\ trace[i + 1].out # OK}

\* The compensation of the delete half done at i re-created the Principal.
Recreated(i) ==
    /\ Len(trace) = i + 3
    /\ IsOp(trace[i + 3], "Write", RootPrincipals)
    /\ trace[i + 3].key = trace[i].key
    /\ trace[i + 3].out = OK

\* C4: in delete, when the Principal was deleted and the delete of the mapping
\* then failed, addPrincipal is run for that Principal (its Read comes next);
\* when it succeeded, the call returned an error and the store is as it was
\* before the call: the mapping stored, the Principal stored with the same id
\* and role.
C4_DeleteCompensation ==
    \A i \in DeleteHalfDone :
        /\ Len(trace) >= i + 2
        /\ IsOp(trace[i + 2], "Read", RootPrincipals)
        /\ trace[i + 2].key = trace[i].key
        /\ err # Nil
        /\ (Recreated(i) /\ trace[i].key \in DOMAIN pre.principals) =>
             /\ Store = pre
             /\ call.key \in DOMAIN ldap_mappings
             /\ trace[i].key \in DOMAIN principals
             /\ principals[trace[i].key] = pre.principals[trace[i].key]

\* C4 witness: a DeleteLdapMapping whose mapping delete failed and whose
\* compensating re-creation of the stored Principal succeeded.
C4_Witness ==
    /\ call.op = "DeleteLdapMapping"
    /\ \E i \in DeleteHalfDone : Recreated(i) /\ trace[i].key \in DOMAIN pre.principals

\* The positions of the trace with the operation name on root.
Steps(name, root) == {i \in 1..Len(trace) : IsOp(trace[i], name, root)}

AtMostOnce(S) == Cardinality(S) <= 1

\* C5: in an add or delete call every forward store step is made at most
\* once; the compensating action is run at most once and only right after the
\* second forward step failed; and the error returned is the one of the
\* failed forward step, whatever the compensating action answered.
C5_OnceAndSwallowed ==
    /\ call.op \in AddOps =>
         /\ AtMostOnce(Steps("Read", OwnRoot))
         /\ AtMostOnce(Steps("Read", RootPrincipals))
         /\ AtMostOnce(Steps("Write", RootPrincipals))
         /\ AtMostOnce(Steps("Write", OwnRoot))
         /\ AtMostOnce(Steps("ClearState", RootPrincipals))
         /\ Steps("ClearState", OwnRoot) = {}
         /\ \A j \in Steps("ClearState", RootPrincipals) : j - 2 \in AddHalfDone
         /\ \A i \in AddHalfDone :
              err = Err("Failed to write LDAP group mapping info. to data store",
                        trace[i + 1].out)
    /\ call.op \in DeleteOps =>
         /\ AtMostOnce(Steps("Read", OwnRoot))
         /\ AtMostOnce(Steps("ClearState", RootPrincipals))
         /\ AtMostOnce(Steps("ClearState", OwnRoot))
         /\ AtMostOnce(Steps("Read", RootPrincipals))
         /\ AtMostOnce(Steps("Write", RootPrincipals))
         /\ Steps("Write", OwnRoot) = {}
         /\ \A j \in Steps("Read", RootPrincipals) : j - 2 \in DeleteHalfDone
         /\ \A j \in Steps("Write", RootPrincipals) : j - 3 \in DeleteHalfDone
         /\ \A i \in DeleteHalfDone :
              err = Err("Failed to delete group from store", trace[i + 1].out)

\* C5 witness: an add whose compensating delete failed too.
C5_Witness ==
    /\ call.op \in AddOps
    /\ \E i \in AddHalfDone : trace[i + 2].out # OK

\* C6: an add with a key whose record is stored, no store operation of the
\* call failing, returns ErrKeyExists, writes and clears nothing, and leaves
\* the store as it was.
C6_SecondAdd ==
    (call.op \in AddOps /\ call.key \in DOMAIN pre[OwnRoot] /\ CallClean) =>
        /\ err = ErrKeyExists
        /\ ~Mutating
        /\ Store = pre

\* C6 witness: an AddLdapMapping for a stored group, carrying a new
\* principal id.
C6_Witness ==
    /\ call.op = "AddLdapMapping" /\ CallClean
    /\ call.key \in DOMAIN pre.ldap_mappings
    /\ Cardinality(DOMAIN principals) = 1
    /\ NewUUIDs # {}

\* C7: a get with no store failure returns ErrKeyNotFound and no record
\* exactly when no record is stored for the key, that is when the key has
\* no add that returned nil since its last delete that returned nil; and
\* otherwise returns nil with the stored record, which has the key and the
\* role of that add.
C7_GetRoundTrip ==
    (call.op \in GetOps /\ CallClean) =>
        /\ (err = ErrKeyNotFound) <=> (call.key \notin DOMAIN Store[OwnRoot])
        /\ (call.key \notin DOMAIN Store[OwnRoot]) <=> (call.key \notin DOMAIN added)
        /\ err = ErrKeyNotFound => ret = <<>>
        /\ err # ErrKeyNotFound =>
             /\ err = Nil
             /\ Len(ret) = 1
             /\ ret[1].Principal.Role = added[call.key]
             /\ api = "ldap" =>
                  /\ ret[1].GroupName = call.key
                  /\ MarshalLdapMapping(ret[1]) = ldap_mappings[call.key]
             /\ api \in LocalApis =>
                  /\ ret[1].Username = call.key
                  /\ MarshalLocalUser(ret[1]) = local_users[call.key]

\* C7 witness: a get of a stored mapping whose role is not the zero role.
C7_Witness ==
    /\ call.op = "GetLdapMapping" /\ err = Nil
    /\ Len(ret) = 1
    /\ ret[1].Principal.Role = Ops

\* The delete the last call made, made once more with no store failure.
DeleteAgain ==
    IF api = "ldap"
    THEN DeleteLdapMapping(Begin, NoFault, call.key)
    ELSE DeleteLocalUser(Begin, NoFault, call.key)

\* The principal id of the record the last call found stored for its key.
OwnedPid ==
    IF api = "ldap"
    THEN pre.ldap_mappings[call.key].PrincipalID
    ELSE pre.local_users[call.key].principal_id

\* C8: a delete that returned nil leaves neither the record nor a Principal
\* with the record's principal id in the store, and a second delete of the
\* key returns ErrKeyNotFound and leaves the store unchanged.
C8_DeleteIdempotent ==
    (call.op \in DeleteOps /\ err = Nil) =>
        /\ call.key \in DOMAIN pre[OwnRoot]
        /\ call.key \notin DOMAIN Store[OwnRoot]
        /\ PrincipalsWithId(OwnedPid) = {}
        /\ OwnedPid \notin DOMAIN principals
        /\ DeleteAgain.err = ErrKeyNotFound
        /\ DeleteAgain.s = Store

\* C8 witness: a DeleteLdapMapping returned nil while another mapping and its
\* Principal stay stored.
C8_Witness ==
    /\ call.op = "DeleteLdapMapping" /\ err = Nil
    /\ Cardinality(DOMAIN ldap_mappings) = 1
    /\ Cardinality(DOMAIN principals) = 1

\* A delete or update was called with a key that has no stored record, and no
\* store operation of the call failed.
AbsentKeyCall ==
    /\ call.op \in DeleteOps \cup UpdateOps
    /\ call.key \notin DOMAIN pre[OwnRoot]
    /\ CallClean

\* C9 as stated: delete and update on a key with no stored record return
\* ErrKeyNotFound and make no write or delete.
C9_AbsentKeyNotFound ==
    AbsentKeyCall => (err = ErrKeyNotFound /\ ~Mutating)

\* C9: delete and update on a key with no stored record make no write or
\* delete, and return ErrKeyNotFound unless the key is a built-in username of
\* the local user API, for which they return ErrIllegalOperation.
C9_AbsentKeyNotFoundOrBuiltIn ==
    AbsentKeyCall =>
        /\ ~Mutating
        /\ Store = pre
        /\ err = IF api \in LocalApis /\ call.key \in BuiltInUsers
                 THEN ErrIllegalOperation
                 ELSE ErrKeyNotFound

\* C9 witness: an update of a group with no stored mapping while another
\* group is mapped.
C9_Witness ==
    /\ AbsentKeyCall
    /\ call.op = "UpdateLdapMapping"
    /\ err = ErrKeyNotFound
    /\ ldap_mappings # EmptyMap

\* The get of the key of the last call, with no store failure.
GetAfter == GetLocalUser(Begin, NoFault, call.key)

\* C10: DeleteLocalUser and UpdateLocalUser with a built-in username return
\* ErrIllegalOperation and make no store operation; the store is unchanged,
\* and a stored built-in record is returned by the get that follows.
C10_BuiltInProtected ==
    (call.op \in {"DeleteLocalUser", "UpdateLocalUser"} /\ call.key \in BuiltInUsers) =>
        /\ err = ErrIllegalOperation
        /\ trace = <<>>
        /\ Store = pre
        /\ call.key \in DOMAIN pre.local_users =>
             /\ GetAfter.err = Nil
             /\ MarshalLocalUser(GetAfter.ret[1]) = pre.local_users[call.key]
             /\ GetAfter.ret[1].Username = call.key

\* C10 witness: a DeleteLocalUser of the stored built-in user "ops".
C10_Witness ==
    /\ call.op = "DeleteLocalUser" /\ call.key = RoleString(Ops)
    /\ RoleString(Ops) \in DOMAIN local_users
    /\ err = ErrIllegalOperation

\* The built-in user u is stored and enabled.
PresentEnabled(u) == u \in DOMAIN local_users /\ local_users[u].disable = FALSE

\* C11: when AddDefaultUsers has returned nil, both built-in users are stored
\* and enabled.
C11_BuiltInsPinned ==
    (call.op = "AddDefaultUsers" /\ err = Nil) =>
        \A u \in BuiltInUsers : PresentEnabled(u)

\* C11 counterexample state: AddDefaultUsers returned nil over a built-in
\* record that an earlier add had stored disabled.
C11_BuiltInDisabled ==
    /\ call.op = "AddDefaultUsers" /\ err = Nil
    /\ BuiltInUsers \subseteq DOMAIN local_users
    /\ \E u \in BuiltInUsers : local_users[u].disable = TRUE

\* AddDefaultUsers made once more, with no store failure.
BootstrapAgain == AddDefaultUsers(Begin, NoFault)

\* C12: an AddDefaultUsers with no store failure returns nil whether or not
\* the built-in users were stored, leaves every record that was stored as it
\* was, and a second call returns nil and leaves the store as the first left
\* it.
C12_BootstrapIdempotent ==
    (call.op = "AddDefaultUsers" /\ CallClean) =>
        /\ err = Nil
        /\ BuiltInUsers \subseteq DOMAIN local_users
        /\ \A u \in DOMAIN pre.local_users :
             u \in DOMAIN local_users /\ local_users[u] = pre.local_users[u]
        /\ principals = pre.principals
        /\ BootstrapAgain.err = Nil
        /\ BootstrapAgain.s = Store

\* C12 witness: an AddDefaultUsers that found one built-in user stored and
\* added the other.
C12_Witness ==
    /\ call.op = "AddDefaultUsers" /\ CallClean
    /\ Cardinality(DOMAIN pre.local_users \cap BuiltInUsers) = 1
    /\ Cardinality(Steps("Write", RootLocalUsers)) = 1

GetAllOps == {"GetLdapMappings", "GetLocalUsers"}

\* The empty collection, as a returned value.
EmptyList == << <<>> >>

GetAllHelpers == {"getLdapMappingsHelper", "getLocalUsersHelper"}

\* The list a get_all returned, and the key and the role of an entry of it.
ListOf(v) == IF call.op \in GetAllHelpers THEN v[1].body[1] ELSE v[1]
KeyOf(e) == IF api = "ldap" THEN e.GroupName ELSE e.Username
RoleOf(e) == IF call.op \in GetAllHelpers THEN e.Role ELSE e.Principal.Role
Shown(role) == IF call.op \in GetAllHelpers THEN RoleString(role) ELSE role

\* C15: a get_all of the usermgmt functions or of the helpers, no store
\* operation failing, succeeds and returns one entry per key added and not
\* deleted since, these being the keys stored, each with its key and the role
\* it was last stored with, and no other entry.
C15_GetAllExact ==
    (call.op \in GetAllOps \cup GetAllHelpers /\ CallClean) =>
        /\ IF call.op \in GetAllHelpers THEN ret[1].status = StatusOK ELSE err = Nil
        /\ DOMAIN added = DOMAIN Store[OwnRoot]
        /\ Len(ListOf(ret)) = Cardinality(DOMAIN added)
        /\ {KeyOf(ListOf(ret)[i]) : i \in 1..Len(ListOf(ret))} = DOMAIN added
        /\ \A i \in 1..Len(ListOf(ret)) :
              RoleOf(ListOf(ret)[i]) = Shown(added[KeyOf(ListOf(ret)[i])])

\* C15 witness: getLdapMappingsHelper returns two mappings of different roles.
C15_Witness ==
    /\ call.op = "getLdapMappingsHelper" /\ CallClean
    /\ ret[1].status = StatusOK
    /\ Len(ret[1].body[1]) = 2
    /\ ret[1].body[1][1].Role # ret[1].body[1][2].Role

UpdateHelpers == {"updateLdapMappingHelper", "updateLocalUserHelper"}

\* The view of the record the key of the last call had before the call.
CurrentView ==
    IF api = "ldap"
    THEN ldapMapping(UnmarshalLdapMapping(pre.ldap_mappings[call.key]))
    ELSE localUser(UnmarshalLocalUser(pre.local_users[call.key]))

\* The request of the last call changes nothing: role unset or equal to the
\* current role, password unset, disable flag equal to the current one.
NoChange ==
    /\ call.req.Role \in {"", CurrentView.Role}
    /\ api \in LocalApis =>
          /\ call.req.Password = ""
          /\ call.req.Disable = CurrentView.Disable

\* C16 as stated: an update helper on an existing key with a request that
\* changes nothing returns the current view and makes no store write or
\* delete.
C16_NoChangeNoWrite ==
    (/\ call.op \in UpdateHelpers /\ CallClean
     /\ call.key \in DOMAIN pre[OwnRoot] /\ NoChange) =>
        /\ ret[1].status = StatusOK
        /\ ret[1].body = <<CurrentView>>
        /\ ~Mutating

\* C16, the failing case reached: updateLdapMappingHelper with the role the
\* mapping has already deletes and writes the mapping and its principal.
C16_SameRoleRewritten ==
    /\ call.op = "updateLdapMappingHelper" /\ CallClean
    /\ call.key \in DOMAIN pre.ldap_mappings
    /\ call.req.Role = CurrentView.Role
    /\ ret[1].status = StatusOK
    /\ Cardinality(Steps("ClearState", RootLdapMappings)) = 1
    /\ Cardinality(Steps("Write", RootLdapMappings)) = 1

\* The local user of the key of the last call, before and after the call.
UserBefore == UnmarshalLocalUser(pre.local_users[call.key])
UserAfter == UnmarshalLocalUser(local_users[call.key])

\* The last call is an updateLocalUserHelper that succeeded.
UserUpdated ==
    /\ call.op = "updateLocalUserHelper"
    /\ ret[1].status = StatusOK
    /\ call.key \in DOMAIN pre.local_users \cap DOMAIN local_users

\* C17 as stated: after a successful update of a local user an empty role
\* keeps the current role, a disable flag equal to the current one keeps that
\* flag, and an empty password keeps the current password digest.
C17_UnspecifiedKept ==
    UserUpdated =>
        /\ IsEmpty(call.req.Role) =>
              UserAfter.Principal.Role = UserBefore.Principal.Role
        /\ call.req.Disable = UserBefore.Disable =>
              UserAfter.Disable = UserBefore.Disable
        /\ IsEmpty(call.req.Password) =>
              UserAfter.PasswordHash = UserBefore.PasswordHash

\* C17, the failing case reached: an update that sets only a new password on
\* a disabled ops user leaves the user enabled, with role admin.
C17_FieldsReset ==
    /\ UserUpdated /\ CallClean
    /\ IsEmpty(call.req.Role) /\ ~IsEmpty(call.req.Password)
    /\ call.req.Disable /\ UserBefore.Disable
    /\ UserBefore.Principal.Role = Ops
    /\ UserAfter.Principal.Role = Admin
    /\ ~UserAfter.Disable

\* C17, the third failing case reached: an update with an empty password
\* replaces the digest of the password by the digest of the empty string.
C17_DigestReset ==
    /\ UserUpdated /\ CallClean
    /\ IsEmpty(call.req.Password)
    /\ UserBefore.PasswordHash = GenPasswordHash("pw")
    /\ UserAfter.PasswordHash = GenPasswordHash("")

\* The last call is an update of an existing LDAP mapping that succeeded, at
\* either layer, and the role it carried.
MappingUpdated ==
    /\ call.key \in DOMAIN pre.ldap_mappings
    /\ \/ call.op = "UpdateLdapMapping" /\ err = Nil
       \/ /\ call.op = "updateLdapMappingHelper"
          /\ ret[1].status = StatusOK
          /\ Role(call.req.Role).err = Nil
UpdatedRole ==
    IF call.op = "UpdateLdapMapping" THEN added[call.key]
    ELSE Role(call.req.Role).role

\* C18: after a successful update of an existing LDAP mapping with a valid
\* role r, no store operation having failed, a get of the group returns the
\* group name with role r, the mapping has the principal id it had before, the
\* stored Principal with that id has role r, and the numbers of stored
\* mappings and Principals are what they were.
C18_UpdateSetsRole ==
    (MappingUpdated /\ failures = 0) =>
        /\ getLdapMappingHelper(Begin, NoFault, call.key).status = StatusOK
        /\ getLdapMappingHelper(Begin, NoFault, call.key).body =
              <<[GroupName |-> call.key, Role |-> RoleString(UpdatedRole)]>>
        /\ call.key \in DOMAIN ldap_mappings
        /\ ldap_mappings[call.key].PrincipalID =
              pre.ldap_mappings[call.key].PrincipalID
        /\ ldap_mappings[call.key].PrincipalID \in DOMAIN principals
        /\ UnmarshalPrincipal(principals[ldap_mappings[call.key].PrincipalID]).Role
              = UpdatedRole
        /\ Cardinality(DOMAIN ldap_mappings) = Cardinality(DOMAIN pre.ldap_mappings)
        /\ Cardinality(DOMAIN principals) = Cardinality(DOMAIN pre.principals)

\* C18 witness: updateLdapMappingHelper has turned an admin mapping into an
\* ops mapping, another mapping being stored.
C18_Witness ==
    /\ MappingUpdated /\ failures = 0
    /\ call.op = "updateLdapMappingHelper"
    /\ UnmarshalLdapMapping(pre.ldap_mappings[call.key]).Principal.Role = Admin
    /\ UpdatedRole = Ops
    /\ Cardinality(DOMAIN ldap_mappings) = 2

AddHelpers == {"addLdapMappingHelper", "addLocalUserHelper"}

\* The role string of the request of the last call is none of "admin", "ops".
RoleUnrecognized == call.req.Role \notin {RoleString(Admin), RoleString(Ops)}

\* C19: an add helper whose request has a role string other than "admin" and
\* "ops", the empty string included, returns StatusBadRequest without a store
\* operation: the principals and the owning records are what they were.
C19_AddBadRole ==
    (call.op \in AddHelpers /\ RoleUnrecognized) =>
        /\ ret[1].status = StatusBadRequest
        /\ trace = <<>>
        /\ Store = pre

\* C19 witness: addLdapMappingHelper for a group with the empty role string.
C19_Witness ==
    /\ call.op = "addLdapMappingHelper"
    /\ call.key \in Groups
    /\ call.req.Role = ""
    /\ ret[1].status = StatusBadRequest

\* The last call is an update helper on an existing key whose request has a
\* non-empty role string that is not recognized, no store operation failing.
UpdateBadRole ==
    /\ call.op \in UpdateHelpers /\ CallClean
    /\ call.key \in DOMAIN pre[OwnRoot]
    /\ ~IsEmpty(call.req.Role) /\ RoleUnrecognized

\* C20 as stated: an update with an unrecognized non-empty role string fails
\* with StatusBadRequest, as an add does, and changes nothing in the store.
C20_UpdateBadRole ==
    UpdateBadRole =>
        /\ ret[1].status = StatusBadRequest
        /\ ~Mutating
        /\ Store = pre

\* C20, the failing case reached: updateLocalUserHelper with an unrecognized
\* role returns StatusInternalServerError after reading the user.
C20_InternalError ==
    /\ UpdateBadRole
    /\ call.op = "updateLocalUserHelper"
    /\ ret[1].status = StatusInternalServerError
    /\ Len(trace) = 1 /\ trace[1].op = "Read"
    /\ Store = pre

\* C21: every local user record in the store has an empty plaintext password
\* and a non-empty password digest.
C21_NoPlaintext ==
    \A u \in DOMAIN local_users :
        /\ local_users[u].password = ""
        /\ local_users[u].password_hash # NoHash

\* C21 witness: a user added with a password by the helper, and the built-in
\* users the bootstrap added from objects that carry the plaintext password
\* and no digest, are stored.
C21_Witness ==
    /\ BuiltInUsers \subseteq DOMAIN local_users
    /\ \E u \in OtherUsers \cap DOMAIN local_users :
          local_users[u].password_hash = GenPasswordHash("pw")
    /\ layer = "proxy"

\* Both concurrent calls are calls of op on the same key and have returned
\* the value v.
BothReturned(op, v) ==
    /\ DOMAIN procs = Procs
    /\ procs[1].key = procs[2].key
    /\ \A p \in Procs : procs[p].op = op /\ procs[p].pc = "done" /\ procs[p].ret = <<v>>

\* The principal ids no stored mapping owns.
Orphans ==
    {id \in DOMAIN principals :
        \A g \in DOMAIN ldap_mappings : ldap_mappings[g].PrincipalID # id}

\* C22: two concurrent AddLdapMapping calls for the same absent group, with
\* different principal ids, can both return nil; whenever they have, one
\* mapping is stored for the group and the two Principals are stored, one of
\* them owned by no mapping.
C22_AddRace ==
    BothReturned("AddLdapMapping", Nil) =>
        /\ DOMAIN ldap_mappings = {procs[1].key}
        /\ DOMAIN principals = {procs[1].obj.PrincipalID, procs[2].obj.PrincipalID}
        /\ Cardinality(DOMAIN principals) = 2
        /\ Cardinality(Orphans) = 1

\* C22 witness: both calls have returned nil for the same group.
C22_Witness ==
    /\ BothReturned("AddLdapMapping", Nil)
    /\ pre.ldap_mappings = EmptyMap
    /\ Cardinality(Orphans) = 1

\* Both concurrent calls are updateLocalUserHelper calls for the same user
\* with requests that change different fields, and both returned StatusOK.
BothUpdated ==
    /\ DOMAIN procs = Procs
    /\ \A p \in Procs :
          /\ procs[p].op = "updateLocalUserHelper" /\ procs[p].pc = "done"
          /\ procs[p].ret[1].status = StatusOK
    /\ procs[1].key = procs[2].key
    /\ procs[1].req # procs[2].req

\* The stored user has the change the request req asked for.
HasChange(req) ==
    /\ req.Username \in DOMAIN local_users
    /\ ~IsEmpty(req.Role) =>
          local_users[req.Username].Principal.roletype = Role(req.Role).role
    /\ req.Disable => local_users[req.Username].disable
    /\ ~IsEmpty(req.Password) =>
          local_users[req.Username].password_hash = GenPasswordHash(req.Password)

\* C23: two concurrent updateLocalUserHelper calls of the same user that
\* change different fields can both return StatusOK, no store operation
\* failing; whenever they have, the stored user lacks the change of one of
\* them.
C23_LostUpdate ==
    BothUpdated => ~(HasChange(procs[1].req) /\ HasChange(procs[2].req))

\* C23 witness: both updates returned StatusOK, each having made store
\* operations while the other was under way; the stored user has the change
\* of the second and not that of the first.
C23_Witness ==
    /\ BothUpdated
    /\ procs[1].raced /\ procs[2].raced
    /\ HasChange(procs[2].req) /\ ~HasChange(procs[1].req)

\* C24 as stated: no update call, whatever it returns, leaves a record that
\* was present before the call absent after it.
C24_UpdateKeepsRecord ==
    (call.op \in UpdateOps \cup UpdateHelpers /\ call.key \in DOMAIN pre[OwnRoot]) =>
        call.key \in DOMAIN Store[OwnRoot]

\* C24, the failing case reached: UpdateLdapMapping has deleted the mapping
\* and its principal, the write of the new mapping failed, and the call
\* returned an error with the mapping gone.
C24_UpdateRemoved ==
    /\ call.op = "UpdateLdapMapping"
    /\ call.key \in DOMAIN pre.ldap_mappings
    /\ call.key \notin DOMAIN ldap_mappings
    /\ err # Nil
    /\ Failed(trace) = 1
    /\ \E i \in Steps("Write", RootLdapMappings) : trace[i].out # OK

DeleteHelpers == {"deleteLdapMappingHelper", "deleteLocalUserHelper"}
GetHelpers == {"getLdapMappingHelper", "getLocalUserHelper"}

\* The outcome the last call, a call of a helper, has by its request and the
\* store it found, the checks taken in the order the helpers make them.
Outcome ==
    IF call.op \in AddHelpers
    THEN IF IsEmpty(call.key) \/ RoleUnrecognized
            \/ (api \in LocalApis /\ IsEmpty(call.req.Password))
         THEN "InvalidArgument"
         ELSE IF call.key \in DOMAIN pre[OwnRoot] THEN "AlreadyExists" ELSE "Done"
    ELSE IF call.op \in UpdateHelpers
    THEN IF IsEmpty(call.key) THEN "InvalidArgument"
         ELSE IF call.key \notin DOMAIN pre[OwnRoot] THEN "NotFound"
         ELSE IF ~IsEmpty(call.req.Role) /\ RoleUnrecognized THEN "InvalidArgument"
         ELSE IF call.key \in BuiltInUsers THEN "IllegalOperation" ELSE "Done"
    ELSE IF call.op \in DeleteHelpers
    THEN IF IsEmpty(call.key) THEN "InvalidArgument"
         ELSE IF api \in LocalApis /\ call.key \in BuiltInUsers THEN "IllegalOperation"
         ELSE IF call.key \notin DOMAIN pre[OwnRoot] THEN "NotFound" ELSE "Done"
    ELSE IF call.op \in GetHelpers
    THEN IF api = "ldap" /\ IsEmpty(call.key) THEN "InvalidArgument"
         ELSE IF call.key \notin DOMAIN pre[OwnRoot] THEN "NotFound" ELSE "Done"
    ELSE "Done"

\* C25 as stated: NotFound, AlreadyExists, IllegalOperation and
\* InvalidArgument reach the caller of a helper as categories of their own:
\* none is reported as StatusInternalServerError, and none shares the status
\* of InvalidArgument (StatusBadRequest) or of NotFound (StatusNotFound) with
\* another.
C25_Categories ==
    (layer = "proxy" /\ CallClean /\ Outcome # "Done") =>
        /\ ret[1].status # StatusInternalServerError
        /\ ret[1].status = StatusBadRequest => Outcome = "InvalidArgument"
        /\ ret[1].status = StatusNotFound => Outcome = "NotFound"

\* C25, the failing cases reached: AlreadyExists and IllegalOperation are
\* reported with the status of InvalidArgument.
C25_ExistsIsBadRequest ==
    /\ layer = "proxy" /\ CallClean
    /\ Outcome = "AlreadyExists"
    /\ ret[1].status = StatusBadRequest
C25_IllegalIsBadRequest ==
    /\ layer = "proxy" /\ CallClean
    /\ Outcome = "IllegalOperation"
    /\ ret[1].status = StatusBadRequest

\* The fault choice the trace of the last call shows, with the text e for the
\* error of each failed operation.
FaultsAs(e) ==
    [i \in 1..MaxStoreOps |->
        IF i <= Len(trace) /\ trace[i].out \notin {OK, NotFound} THEN e ELSE OK]

\* The second forward step of the last call, an add or a delete of an LDAP
\* mapping by a helper, failed: the Write or the ClearState of the mapping.
SecondStepFailed ==
    /\ call.op \in {"addLdapMappingHelper", "deleteLdapMappingHelper"}
    /\ \E i \in 1..Len(trace) :
          /\ trace[i].root = RootLdapMappings
          /\ trace[i].op \in {"Write", "ClearState"}
          /\ trace[i].out \notin {OK, NotFound}

\* What the caller receives when the last call is made again on the store it
\* found, the store failing at the same operations with the error text e.
Again(e) ==
    IF call.op = "addLdapMappingHelper"
    THEN {Response(addLdapMappingHelper([s |-> pre, tr |-> <<>>], FaultsAs(e),
                                        call.req, pID)) :
            pID \in {trace[i].key : i \in Steps("Write", RootPrincipals)}}
    ELSE {Response(deleteLdapMappingHelper([s |-> pre, tr |-> <<>>], FaultsAs(e),
                                           call.key))}

\* C26 as stated: when the second forward step of an add or a delete fails,
\* two runs that differ in the text of the store's error only return the
\* same result to the caller.
C26_TextOpaque ==
    SecondStepFailed => Again("E1") = Again("E2")

\* C26, the failing case reached: addLdapMappingHelper, the Write of the
\* mapping having failed, returns the text of the store's error in its body;
\* the run with the other text returns another body.
C26_TextReturned ==
    /\ SecondStepFailed /\ call.op = "addLdapMappingHelper"
    /\ Again("E1") = {ret}
    /\ ret[1].status = StatusInternalServerError
    /\ ret[1].body[1].cause = "E1"
    /\ \A r \in Again("E2") :
          r[1].status = StatusInternalServerError /\ r[1].body[1].cause = "E2"

\* The Principals a caller can hand to addPrincipal.
SomePrincipals == {[UUID |-> p, Role |-> role] : p \in Pids, role \in Roles}

\* addPrincipal applied to the store as it is, no store operation failing.
Created(principal) == addPrincipal(Begin, NoFault, principal)

\* The store with the Principal written under its id.
StoreWith(principal) ==
    [Store EXCEPT !.principals =
        With(principals, principal.UUID, MarshalPrincipal(principal))]

\* C27 as stated: addPrincipal of an id the store holds fails with
\* ErrKeyExists and leaves the stored Principal as it is; addPrincipal of a
\* free id writes that Principal under its id.
C27_CreatePrincipal ==
    \A principal \in SomePrincipals :
        IF principal.UUID \in DOMAIN principals
        THEN Created(principal).err = ErrKeyExists /\ Created(principal).s = Store
        ELSE Created(principal).err = Nil
             /\ Created(principal).s = StoreWith(principal)

\* C27, what the code does: the store is as the claim says in both cases,
\* but the error for an occupied id is a new error made of the text of
\* ErrKeyExists and the id, which no comparison with ErrKeyExists matches.
C27_CreatePrincipalText ==
    \A principal \in SomePrincipals :
        IF principal.UUID \in DOMAIN principals
        THEN /\ Created(principal).err = Err("ErrKeyExists: %q", principal.UUID)
             /\ Created(principal).err # ErrKeyExists
             /\ Created(principal).s = Store
             /\ Len(Created(principal).tr) = 1
        ELSE /\ Created(principal).err = Nil
             /\ Created(principal).s = StoreWith(principal)

\* C27, the failing case reached: the store holds a Principal, and
\* addPrincipal of its id with the other role returns the new error, the
\* stored Principal kept; AddLdapMapping of an absent group with that id
\* passes the error on, and some other id is free and is written.
C27_Occupied ==
    \E principal \in SomePrincipals, g \in Groups :
        /\ principal.UUID \in DOMAIN principals
        /\ principals[principal.UUID] # MarshalPrincipal(principal)
        /\ Created(principal).err = Err("ErrKeyExists: %q", principal.UUID)
        /\ Created(principal).s = Store
        /\ g \notin DOMAIN ldap_mappings
        /\ AddLdapMapping(Begin, NoFault,
                          NewLdapMapping(g, principal.UUID, principal.Role)).err
             = Created(principal).err
        /\ \E other \in SomePrincipals :
              /\ other.UUID \notin DOMAIN principals
              /\ Created(other).s = StoreWith(other)
              /\ Created(other).s # Store

\* The last call was isTokenValid.
TokenChecked == call.op = "isTokenValid"

\* What auth.ParseToken answered in the last call.
Parsed == ParseToken(call.key, call.req.expired)

\* C28: isTokenValid rejects the empty token string (401) and every token
\* the parser rejects (400), and accepts every token the parser accepts,
\* returning its token object, whatever the store holds for its user.
C28_TokenValid ==
    TokenChecked =>
        /\ call.key = "" =>
              /\ ~ret[1].valid
              /\ ret[1].written = <<[status |-> StatusUnauthorized,
                                     body |-> "Empty auth token"]>>
        /\ call.key # "" /\ Parsed.err # Nil =>
              /\ ~ret[1].valid
              /\ ret[1].written = <<[status |-> StatusBadRequest, body |-> "Bad token"]>>
        /\ call.key # "" /\ Parsed.err = Nil =>
              /\ ret[1].valid
              /\ ret[1].token = Parsed.token
              /\ ret[1].written = <<>>
        /\ Store = pre

\* C28, the case reached: the token of alice is accepted while the stored
\* user alice is disabled.
C28_Witness ==
    /\ TokenChecked /\ call.key = TokenOf("alice")
    /\ ret[1].valid
    /\ "alice" \in DOMAIN local_users /\ local_users["alice"].disable

\* C28, the other case reached: the token of alice is accepted when no user
\* alice is stored.
C28_Deleted ==
    /\ TokenChecked /\ call.key = TokenOf("alice")
    /\ ret[1].valid
    /\ "alice" \notin DOMAIN local_users

\* Strings that name no role: what Invalid.String() yields, the role names
\* in another case, a user name.
NoRoleStrings == {RoleString(Invalid), "bogus", "Admin", "OPS", "alice"}

\* The last call is a helper that applied Role to the role of its request.
RoleApplied ==
    /\ call.op \in AddHelpers
    /\ call.op = "addLdapMappingHelper" => call.req.GroupName # ""
    /\ call.op = "addLocalUserHelper" => call.req.Username # "" /\ call.req.Password # ""

\* C29: Role(r.String()) is r without an error for r in {Admin, Ops}; Role of
\* every other string, the empty string of Invalid.String() included, is
\* Invalid with ErrIllegalArgument.  So an add helper that applied Role to
\* its request either stopped with StatusBadRequest at a string that names
\* no role, or went on with the role the string names.
C29_RoleOfString ==
    /\ \A r \in Roles : Role(RoleString(r)) = [role |-> r, err |-> Nil]
    /\ \A s \in NoRoleStrings \cup RoleStrings :
          s \notin {RoleString(r) : r \in Roles} =>
              Role(s) = [role |-> Invalid, err |-> ErrIllegalArgument]
    /\ RoleString(Invalid) = ""
    /\ RoleApplied =>
          IF Role(call.req.Role).err = Nil
          THEN /\ RoleString(Role(call.req.Role).role) = call.req.Role
               /\ Role(call.req.Role).role \in Roles
          ELSE /\ Role(call.req.Role) = [role |-> Invalid, err |-> ErrIllegalArgument]
               /\ ret[1].status = StatusBadRequest
               /\ trace = <<>>

\* C29, the cases reached: addLdapMappingHelper applied Role to "ops" and
\* stored the principal with the role Ops.
C29_Witness ==
    /\ call.op = "addLdapMappingHelper" /\ RoleApplied
    /\ call.req.Role = RoleString(Ops)
    /\ ret[1].status = StatusCreated
    /\ Role(call.req.Role) = [role |-> Ops, err |-> Nil]
    /\ \E p \in DOMAIN principals : UnmarshalPrincipal(principals[p]).Role = Ops

\* C29, the other case reached: addLocalUserHelper applied Role to the empty
\* string and stopped.
C29_EmptyString ==
    /\ call.op = "addLocalUserHelper" /\ RoleApplied
    /\ call.req.Role = RoleString(Invalid)
    /\ Role(call.req.Role) = [role |-> Invalid, err |-> ErrIllegalArgument]
    /\ ret[1].status = StatusBadRequest

\* The last call built the reply for the Authorization call.req.
Converted == call.op = "convertAuthz"

\* C30: convertAuthz makes the tenant name <name> of a claim key
\* "tenant:<name>" and the empty tenant name of the empty (global) claim key,
\* and copies the id, the principal name, the local flag and the claim value
\* (as the role) of the Authorization as they are.
C30_ConvertAuthz ==
    Converted =>
        /\ \A name \in TenantNames :
              call.req.ClaimKey = TenantClaimKey \o name => ret[1].TenantName = name
        /\ call.req.ClaimKey = <<>> => ret[1].TenantName = <<>>
        /\ ret[1].AuthzUUID = call.req.UUID
        /\ ret[1].PrincipalName = call.req.PrincipalName
        /\ ret[1].Local = call.req.Local
        /\ ret[1].Role = call.req.ClaimValue

\* C30, the case reached: the reply for the claim key "tenant:b1" of a local
\* principal names the tenant "b1".
C30_Witness ==
    /\ Converted
    /\ call.req.ClaimKey = TenantClaimKey \o <<"b", "1">>
    /\ call.req.Local
    /\ ret[1].TenantName = <<"b", "1">>
    /\ ret[1].TenantName # call.req.ClaimKey

\* C30, the other case reached: the reply for the global claim key has the
\* empty tenant name.
C30_Global ==
    /\ Converted
    /\ call.req.ClaimKey = <<>>
    /\ ret[1].TenantName = <<>>

\* The stored mappings whose principal id is pid.
MappingsWithId(pid) ==
    {g \in DOMAIN ldap_mappings : ldap_mappings[g].PrincipalID = pid}

\* The compensation of the add half done at i, the ClearState of the
\* Principal, failed.
AddCleanupFailed(i) ==
    /\ Len(trace) >= i + 2
    /\ trace[i + 2].out # OK

\* The compensation of the delete half done at i, addPrincipal, failed: at
\* its Read, or at the Write that follows a Read that found no Principal.
DeleteCleanupFailed(i) ==
    /\ Len(trace) >= i + 2
    /\ \/ trace[i + 2].out \notin {OK, NotFound}
       \/ /\ Len(trace) >= i + 3
          /\ trace[i + 3].out # OK

\* C31: when the second forward step of a call failed and the compensating
\* action failed too, the failed operation of the compensation is the last
\* store operation of the call, and the store is left inconsistent: after an
\* add, the Principal is stored and no mapping owns it; after a delete, the
\* mapping is stored and its Principal is not.
C31_DoubleFailure ==
    /\ \A i \in AddHalfDone :
          AddCleanupFailed(i) =>
              /\ Len(trace) = i + 2
              /\ err # Nil
              /\ trace[i].key \in DOMAIN principals
              /\ trace[i + 1].key \notin DOMAIN ldap_mappings
              /\ MappingsWithId(trace[i].key) = {}
    /\ \A i \in DeleteHalfDone :
          DeleteCleanupFailed(i) =>
              /\ Len(trace) = IF trace[i + 2].out = NotFound THEN i + 3 ELSE i + 2
              /\ err # Nil
              /\ trace[i + 1].key \in DOMAIN ldap_mappings
              /\ ldap_mappings[trace[i + 1].key].PrincipalID = trace[i].key
              /\ trace[i].key \notin DOMAIN principals

\* C31 witness: a DeleteLdapMapping of a stored mapping with its Principal
\* whose ClearState of the mapping failed and whose re-creation of the
\* Principal failed at the Write: the mapping is left without its Principal.
C31_Witness ==
    /\ call.op = "DeleteLdapMapping"
    /\ \E i \in DeleteHalfDone :
          /\ DeleteCleanupFailed(i)
          /\ Len(trace) = i + 3
          /\ trace[i].key \in DOMAIN pre.principals
          /\ trace[i].key \notin DOMAIN principals
          /\ call.key \in DOMAIN ldap_mappings

\* C31, the other case reached: an AddLdapMapping whose Write of the mapping
\* and whose cleanup failed leaves a Principal no mapping owns.
C31_Orphan ==
    /\ call.op = "AddLdapMapping"
    /\ \E i \in AddHalfDone :
          /\ AddCleanupFailed(i)
          /\ trace[i].key \in DOMAIN principals
          /\ trace[i].key \notin DOMAIN pre.principals
          /\ MappingsWithId(trace[i].key) = {}

\* The calls that add and that delete an LDAP mapping, at either layer.
LdapAdds == {"AddLdapMapping", "addLdapMappingHelper"}
LdapDeletes == {"DeleteLdapMapping", "deleteLdapMappingHelper"}

\* The positions of the trace where the first forward step of the last call
\* failed: in an add a Read or a Write of addPrincipal, in a delete the
\* ClearState of deletePrincipal.
FirstStepFailed ==
    {i \in 1..Len(trace) :
        /\ trace[i].root = RootPrincipals
        /\ trace[i].out \notin {OK, NotFound}
        /\ \/ call.op \in LdapAdds /\ trace[i].op \in {"Read", "Write"}
           \/ call.op \in LdapDeletes /\ trace[i].op = "ClearState"}

\* C32: an add writes the mapping right after it wrote the Principal, and a
\* delete clears the mapping right after it cleared the Principal; when the
\* first forward step failed the call stopped there with an error: the
\* mapping was neither written nor cleared, no compensation was run, and the
\* store is as it was before the call.
C32_FirstStepFirst ==
    /\ call.op \in LdapAdds =>
          \A j \in Steps("Write", RootLdapMappings) :
              /\ j > 1
              /\ IsOp(trace[j - 1], "Write", RootPrincipals)
              /\ trace[j - 1].out = OK
    /\ call.op \in LdapDeletes =>
          \A j \in Steps("ClearState", RootLdapMappings) :
              /\ j > 1
              /\ IsOp(trace[j - 1], "ClearState", RootPrincipals)
              /\ trace[j - 1].out = OK
    /\ \A i \in FirstStepFailed :
          /\ Len(trace) = i
          /\ err # Nil
          /\ Steps("Write", RootLdapMappings) = {}
          /\ Steps("ClearState", RootLdapMappings) = {}
          /\ call.op \in LdapAdds => Steps("ClearState", RootPrincipals) = {}
          /\ call.op \in LdapDeletes =>
                Steps("Read", RootPrincipals) \cup Steps("Write", RootPrincipals) = {}
          /\ Store = pre

\* C32 witness: an AddLdapMapping whose Write of the Principal failed.
C32_Witness ==
    /\ call.op = "AddLdapMapping"
    /\ \E i \in FirstStepFailed : trace[i].op = "Write"
    /\ Store = pre
    /\ call.key \notin DOMAIN ldap_mappings

\* C32, the other case reached: a DeleteLdapMapping of a stored mapping whose
\* ClearState of the Principal failed: mapping and Principal are still there.
C32_DeleteStopped ==
    /\ call.op = "DeleteLdapMapping"
    /\ FirstStepFailed # {}
    /\ call.key \in DOMAIN ldap_mappings
    /\ ldap_mappings[call.key].PrincipalID \in DOMAIN principals

\* Both concurrent calls are DeleteLdapMapping calls for the same group, which
\* was mapped when they began, and both have returned.
BothDeleted ==
    /\ DOMAIN procs = Procs
    /\ procs[1].key = procs[2].key
    /\ procs[1].key \in DOMAIN pre.ldap_mappings
    /\ \A p \in Procs : procs[p].op = "DeleteLdapMapping" /\ procs[p].pc = "done"

\* The principal id of the mapping the concurrent deletes found.
DeletedId == pre.ldap_mappings[procs[1].key].PrincipalID

\* C33 as stated: when two concurrent DeleteLdapMapping calls for the same
\* mapped group have returned, the store having refused nothing but a
\* ClearState of a key that was gone, neither the mapping nor its Principal
\* is stored, and one of the calls at least returned nil.
C33_DeleteRace ==
    BothDeleted =>
        /\ procs[1].key \notin DOMAIN ldap_mappings
        /\ DeletedId \notin DOMAIN principals
        /\ \E p \in Procs : procs[p].ret = <<Nil>>

\* The calls whose ClearState of the mapping was refused: they return its
\* error after the cleanup.
Refused ==
    {p \in Procs : procs[p].ret = <<Err("Failed to delete group from store", "E1")>>}

\* C33, corrected: when the two calls have returned, the mapping is gone and
\* one call at least returned nil; the Principal of the mapping is stored
\* exactly when the ClearState of the mapping of the other call was refused,
\* whose cleanup wrote it again, and then no mapping owns it.
C33_MappingGone ==
    BothDeleted =>
        /\ procs[1].key \notin DOMAIN ldap_mappings
        /\ \E p \in Procs : procs[p].ret = <<Nil>>
        /\ DeletedId \in DOMAIN principals <=> Refused # {}
        /\ DeletedId \in DOMAIN principals => DeletedId \in Orphans

\* C33, the failing case reached: both calls read the mapping, both cleared
\* the Principal, one cleared the mapping and returned nil; the ClearState of
\* the other was refused and its cleanup wrote the Principal again, which no
\* mapping owns.
C33_Resurrected ==
    /\ BothDeleted
    /\ \E p \in Procs : procs[p].ret = <<Nil>>
    /\ \E p \in Procs : procs[p].ret # <<Nil>> /\ procs[p].raced
    /\ procs[1].key \notin DOMAIN ldap_mappings
    /\ DeletedId \in DOMAIN principals
    /\ DeletedId \in Orphans

====
